---- MODULE Spec2Model ----
(***************************************************************************)
(* AbstractCliManager (main/src/services/panels/cli/AbstractCliManager.ts) *)
(* as a state machine.  One manager, one CLI tool.  The manager runs on    *)
(* the single JavaScript thread: an action is the code that runs from one  *)
(* suspension (a timer, a subprocess, an external hook, a pty callback) to *)
(* the next, so async handlers interleave exactly at those awaits.         *)
(***************************************************************************)
EXTENDS Naturals, Integers, FiniteSets, Sequences, TLC

(* ---- bounds of the model ---- *)
MaxProcs == 2
MaxProbes == 2
MaxNow == 600000
MaxText == 4

(* ---- program constants ---- *)
CACHE_TTL == 5 * 60 * 1000

\* the panelIds the host issues
HostPanels == {"p1", "p2"}
Procs == 1 .. MaxProcs
\* Calls in flight at once: a specification fixes, in its initial state,
\* how many spawnCliProcess and killProcess calls may overlap.
OneCall == {1}
TwoCalls == {1, 2}
Platforms == {"linux", "darwin", "win32"}
Results == {"available", "unavailable"}
TickSteps == {CACHE_TTL - 1, CACHE_TTL}

(* An error message of a failed pty.spawn, as the set of the signatures   *)
(* (line 641-644) it contains: String.includes is membership here.        *)
Signatures == {"No such file or directory", "env: node:", "is not recognized", "ENOENT"}
ErrorMessages == {{}, {"ENOENT"}, {"env: node:", "No such file or directory"}, {"is not recognized"}}

VARIABLES
  platform,           \* os.platform()
  processes,          \* this.processes: panelId -> process (0: no entry)
  proc,               \* every pty process ever spawned, with its onExit handler
  spawn,              \* the spawnCliProcess calls in flight
  kill,               \* the killProcess calls in flight
  availabilityCache,  \* this.availabilityCache
  now,                \* Date.now()
  probes,             \* number of testCliAvailability invocations so far
  needsNodeFallback,  \* global[`${toolName}NeedsNodeFallback`]
  served,             \* history: the last result handed out from the cache
  invalidated,        \* history: clearAvailabilityCache ran and no call started since
  pipe,               \* one process as its observers see it: the closure of
                      \* setupProcessHandlers and the events emitted for it
  input,              \* the last sendInput call and what it did
  killAll,            \* the killAllProcesses call in flight
  tree,               \* one killProcess call step by step, with the operating
                      \* system's processes below the pty process
  app,                \* the start of the application (index.ts)
  session             \* per start call: the sessionId startSession was called
                      \* with, "none" for a call of startPanel

vars == <<platform, processes, proc, spawn, kill, availabilityCache, now, probes,
          needsNodeFallback, served, invalidated, pipe, input, killAll, tree,
          app, session>>

\* what the steps outside getCachedAvailability, clearAvailabilityCache and
\* the entry points that start a panel keep
history == <<served, invalidated, session>>

\* what the steps of spawnCliProcess, killProcess and the registry side of
\* the exit handler keep
io == <<pipe, input, killAll, tree, app>>

NoCache == [result |-> "none", timestamp |-> 0, id |-> 0]

IdleSpawn == [pc |-> "idle", panelId |-> "p1", availability |-> "none",
              spawnAttempt |-> 0, ptySpawns |-> 0, directSpawns |-> 0,
              probe |-> 0, seen |-> 0, startFresh |-> FALSE,
              jsonOut |-> 0, errorEv |-> 0, spawnedEv |-> 0, child |-> 0,
              lastError |-> {}]

IdleKill == [pc |-> "idle", panelId |-> "p1", target |-> 0, noop |-> FALSE]

\* lines 664-666: hasReceivedOutput = false, buffer = ''; text is what the
\* process writes in its life, pos how much of it the pty has delivered, in
\* how many chunks.
IdlePipe == [pc |-> "unborn", text |-> <<>>, pos |-> 0, buffer |-> <<>>,
             hasReceivedOutput |-> FALSE, exitCode |-> 0, log |-> <<>>,
             chunks |-> 0]

\* writes: how many times the call wrote to each process
NoInput == [panelId |-> "none", threw |-> FALSE, writes |-> [k \in Procs |-> 0]]

\* panelIds: the keys read at line 300; pending: those whose killProcess
\* promise Promise.all still waits for.
IdleKillAll == [pc |-> "idle", panelIds |-> {}, pending |-> {}]

\* alive: the descendants living now; born: those that ever lived;
\* killedProcesses (235), descendantPids (891), success (894) are the locals
\* of killProcess and killProcessTree; todo is what the loop of 943 has left;
\* signals lists the signals and kill commands issued, zombies the warnings
\* emitted at 971, ptyKills counts the kills of 988 and ptyKillThrew says
\* that the kill of 988 threw (caught at 990); leftAlive is the set of
\* descendants alive when the settle delay ended; result is how the call ended.
IdleTree == [pc |-> "idle", alive |-> {}, born |-> {}, killedProcesses |-> {},
             descendantPids |-> {}, todo |-> {}, success |-> TRUE,
             signals |-> <<>>, zombies |-> <<>>, ptyKills |-> 0,
             ptyKillThrew |-> FALSE,
             caught |-> FALSE, verified |-> FALSE, leftAlive |-> {},
             treeResult |-> "none", result |-> "none"]

\* index.ts: the module variables permissionIpcServer (81), defaultCliManager
\* (74), versionChecker (82), mainWindow; activeProject is what
\* sessionManager.getActiveProject() gives; services says that
\* registerIpcHandlers and setupEventListeners have run; quit that app.quit()
\* has been called, errorBoxes how often dialog.showErrorBox;
\* startupCheck is the timer callback of line 686.
NotStarted == [pc |-> "notReady", activeProject |-> FALSE,
               permissionIpcServer |-> "unset", defaultCliManager |-> "unset",
               managerFailed |-> FALSE, versionChecker |-> FALSE, services |-> FALSE,
               mainWindow |-> FALSE, windows |-> 0, quit |-> FALSE, exited |-> FALSE,
               errorBoxes |-> 0, startupCheck |-> "none"]

Unborn == [panelId |-> "p1", st |-> "unborn", onExit |-> "none",
           exitEvents |-> 0, registeredAtExit |-> FALSE, removals |-> 0]

Init ==
  /\ platform \in Platforms
  /\ processes = [p \in HostPanels |-> 0]
  /\ proc = [k \in Procs |-> Unborn]
  /\ spawn = [s \in OneCall |-> IdleSpawn]
  /\ kill = [c \in OneCall |-> IdleKill]
  /\ availabilityCache = NoCache
  /\ now = 0
  /\ probes = 0
  /\ needsNodeFallback = FALSE
  /\ served = NoCache
  /\ invalidated = FALSE
  /\ pipe = IdlePipe
  /\ input = NoInput
  /\ killAll = IdleKillAll
  /\ tree = IdleTree
  /\ app = NotStarted
  /\ session = [s \in TwoCalls |-> "none"]

(* ---- helpers ---- *)

\* the keys the registry may hold
Panels == DOMAIN processes

\* isPanelRunning: this.processes.has(panelId)
IsPanelRunning(p) == processes[p] # 0

\* this.processes.size > 0
RegistryNonEmpty == \E p \in Panels : processes[p] # 0

Min(S) == CHOOSE x \in S : \A y \in S : x <= y

SpawnSlots == DOMAIN spawn
KillSlots == DOMAIN kill
UnbornProcs == {k \in Procs : proc[k].st = "unborn"}
IdleSpawnSlots == {s \in SpawnSlots : spawn[s].pc = "idle"}
IdleKillSlots == {c \in KillSlots : kill[c].pc = "idle"}
InFlight(s) == spawn[s].pc \notin {"idle", "done", "failed"}

\* A process whose handle nothing refers to any more: it is dead, its onExit
\* handler has ended, no registry entry and no killProcess call holds it.
Collectable(k) ==
  /\ proc[k].st = "dead"
  /\ proc[k].onExit \in {"done", "failed"}
  /\ \A p \in Panels : processes[p] # k
  /\ \A c \in KillSlots : kill[c].target # k

\* A settled promise is taken by its awaiting caller in the same turn, before
\* any timer, subprocess or pty callback runs.
Settled ==
  /\ \A s \in SpawnSlots : spawn[s].pc \notin {"done", "failed"}
  /\ \A c \in KillSlots : kill[c].pc \notin {"done", "failed"}
  /\ killAll.pc \notin {"resolved", "rejected"}
  /\ \A k \in Procs : ~Collectable(k)

(* ---- availability cache (lines 452-470, 310-313) ---- *)

\* line 453-454: the cached entry exists and is younger than CACHE_TTL
CacheFresh ==
  /\ availabilityCache # NoCache
  /\ (now - availabilityCache.timestamp) < CACHE_TTL

\* The caller discipline of spec 4.6 / 3: a panel is started only while it has
\* no registry entry, and by one start call at a time.
CallerMayStart(p) ==
  /\ ~IsPanelRunning(p)
  /\ \A s \in SpawnSlots : InFlight(s) => spawn[s].panelId # p

\* Mutant: the catch block rethrows without the 'error' event.
FailQuietly(s, sl) ==
  spawn' = [spawn EXCEPT ![s] = [sl EXCEPT !.pc = "failed"]]

\* spawnCliProcess catch block (lines 190-200): emit 'error', rethrow.
Fail(s, sl) ==
  spawn' = [spawn EXCEPT ![s] = [sl EXCEPT !.pc = "failed", !.errorEv = @ + 1]]

\* Mutant: the availability result is not looked at.
AfterAvailabilityUnchecked(s, sl) ==
  spawn' = [spawn EXCEPT ![s] = [sl EXCEPT !.pc = "build"]]

\* lines 138-141 with handleCliNotAvailable (475-504): one json output event,
\* then the throw that the catch block turns into an 'error' event.
AfterAvailability(s, sl) ==
  IF sl.availability = "unavailable"
    THEN Fail(s, [sl EXCEPT !.jsonOut = @ + 1])
    ELSE spawn' = [spawn EXCEPT ![s] = [sl EXCEPT !.pc = "build"]]

\* spawnCliProcess up to its first suspension: getCachedAvailability either
\* returns the cached result at once or starts testCliAvailability.
SpawnCliProcess(s, p) ==
  /\ Settled
  /\ spawn[s].pc = "idle"
  /\ s = Min(IdleSpawnSlots)
  /\ CallerMayStart(p)
  /\ Cardinality(UnbornProcs) > Cardinality({x \in SpawnSlots : InFlight(x)})
  /\ IF CacheFresh
       THEN /\ AfterAvailability(s, [IdleSpawn EXCEPT !.panelId = p,
                                       !.availability = availabilityCache.result,
                                       !.seen = availabilityCache.id,
                                       !.startFresh = TRUE])
            /\ served' = [availabilityCache EXCEPT !.id = 0]
            /\ UNCHANGED probes
       ELSE /\ probes < MaxProbes
            /\ probes' = probes + 1
            /\ spawn' = [spawn EXCEPT ![s] = [IdleSpawn EXCEPT !.pc = "probing",
                                                !.panelId = p, !.probe = probes + 1]]
            /\ UNCHANGED served
  /\ invalidated' = FALSE
  /\ UNCHANGED <<io, platform, processes, proc, kill, availabilityCache, now, needsNodeFallback>>

\* startPanel (abstract, line 321): the tool's manager runs the start
\* sequence of spawnCliProcess for the panelId it is given.
StartPanel(s, p) ==
  /\ SpawnCliProcess(s, p)
  /\ session' = [session EXCEPT ![s] = "none"]

\* Mutant: the sessionId itself is taken as the panelId.
VirtualPanelIdBare(sessionId) == sessionId

\* lines 349, 358, 367, 376: `session-${sessionId}`
VirtualPanelId(sessionId) == "session-" \o sessionId

\* startSession (lines 347-351): startPanel(virtualPanelId, sessionId, ...)
StartSession(s, sessionId) ==
  /\ SpawnCliProcess(s, VirtualPanelId(sessionId))
  /\ session' = [session EXCEPT ![s] = sessionId]

\* isSessionRunning (lines 374-378)
IsSessionRunning(sessionId) == IsPanelRunning(VirtualPanelId(sessionId))

\* testCliAvailability resolves: lines 463-469 cache the result and return it.
TestCliAvailabilityReturn(s, r) ==
  /\ Settled
  /\ spawn[s].pc = "probing"
  /\ availabilityCache' = [result |-> r, timestamp |-> now, id |-> spawn[s].probe]
  /\ AfterAvailability(s, [spawn[s] EXCEPT !.availability = r])
  /\ UNCHANGED <<history, io, platform, processes, proc, kill, now, probes, needsNodeFallback>>

\* clearAvailabilityCache (lines 310-313)
ClearAvailabilityCache ==
  /\ Settled
  /\ availabilityCache' = NoCache
  /\ served' = NoCache
  /\ invalidated' = TRUE
  /\ UNCHANGED <<io, session, platform, processes, proc, spawn, kill, now, probes,
                 needsNodeFallback>>

\* Date.now() advances.
Tick(d) ==
  /\ Settled
  /\ now + d <= MaxNow
  /\ now' = now + d
  /\ UNCHANGED <<history, io, platform, processes, proc, spawn, kill, availabilityCache, probes,
                 needsNodeFallback>>

(* ---- spawnPtyProcess (lines 556-658) ---- *)

\* Mutant: every spawn error is taken for a shebang error.
IsShebangErrorAlways(msg) == msg \subseteq Signatures

\* lines 641-644
IsShebangError(msg) ==
  \/ "No such file or directory" \in msg
  \/ "env: node:" \in msg
  \/ "is not recognized" \in msg
  \/ "ENOENT" \in msg

\* line 577: the Linux delay before a spawn while other processes are registered
DelayNeeded == platform = "linux" /\ RegistryNonEmpty

\* Mutant: the flag is not consulted before the direct spawn.
TryDirectIgnoringFlag(sl) == sl.spawnAttempt = 0

\* line 581: the direct spawn is tried on the first attempt unless the flag is set
TryDirect(sl) == sl.spawnAttempt = 0 /\ ~needsNodeFallback

\* lines 636-649: after a failed attempt, set the flag and retry, or give up
RetryWithFallback(sl, msg) ==
  sl.spawnAttempt = 1 /\ ~needsNodeFallback /\ IsShebangError(msg)

\* lines 172-187: record the process, wire its handlers, emit 'spawned'.
Register(s, sl) ==
  LET k == Min(UnbornProcs) IN
  /\ proc' = [proc EXCEPT ![k] = [Unborn EXCEPT !.panelId = sl.panelId, !.st = "running"]]
  /\ processes' = [processes EXCEPT ![sl.panelId] = k]
  /\ spawn' = [spawn EXCEPT ![s] = [sl EXCEPT !.pc = "done", !.spawnedEv = @ + 1,
                                                !.child = k]]

\* line 572: the while condition
LoopContinues(sl) == sl.spawnAttempt < 2

\* Mutant: every failure is retried, with no limit on the attempts.
AfterFailedAttemptRetrying(s, sl, msg) ==
  /\ needsNodeFallback' = TRUE
  /\ spawn' = [spawn EXCEPT ![s] = [sl EXCEPT !.spawnAttempt = @ + 1, !.lastError = msg,
                                                !.pc = "fallback"]]
  /\ UNCHANGED <<processes, proc>>

\* The catch block (lines 632-651) and the loop test after it: lastError is
\* set and spawnAttempt counted; a shebang-shaped first failure sets the flag
\* and goes round again, anything else leaves the loop and throws (654-657).
AfterFailedAttempt(s, sl, msg) ==
  LET failed == [sl EXCEPT !.spawnAttempt = @ + 1, !.lastError = msg] IN
  IF RetryWithFallback(failed, msg) /\ LoopContinues(failed)
    THEN /\ needsNodeFallback' = TRUE
         /\ spawn' = [spawn EXCEPT ![s] =
                        [failed EXCEPT !.pc = IF DelayNeeded THEN "delay" ELSE "attempt"]]
         /\ UNCHANGED <<processes, proc>>
    ELSE /\ Fail(s, failed)
         /\ needsNodeFallback' = (needsNodeFallback \/ RetryWithFallback(failed, msg))
         /\ UNCHANGED <<processes, proc>>

\* One pass of the while loop from the flag test (line 581) to its next
\* suspension: the direct pty.spawn and its catch are synchronous; the
\* fallback branch suspends on the import and on findNodeExecutable.
LoopIteration(s, sl) ==
  IF TryDirect(sl)
    THEN LET tried == [sl EXCEPT !.ptySpawns = @ + 1, !.directSpawns = @ + 1] IN
         \/ /\ Register(s, tried)
            /\ UNCHANGED needsNodeFallback
         \/ \E msg \in ErrorMessages : AfterFailedAttempt(s, tried, msg)
    ELSE /\ spawn' = [spawn EXCEPT ![s] = [sl EXCEPT !.pc = "fallback"]]
         /\ UNCHANGED <<processes, proc, needsNodeFallback>>

\* lines 149-170: arguments, CLI environment, system environment and executable
\* path are built (any of them may throw); then spawnPtyProcess is entered.
BuildEnvironmentReturn(s, ok) ==
  /\ Settled
  /\ spawn[s].pc = "build"
  /\ IF ~ok
       THEN /\ Fail(s, spawn[s])
            /\ UNCHANGED <<processes, proc, needsNodeFallback>>
       ELSE IF DelayNeeded
         THEN /\ spawn' = [spawn EXCEPT ![s].pc = "delay"]
              /\ UNCHANGED <<processes, proc, needsNodeFallback>>
         ELSE LoopIteration(s, spawn[s])
  /\ UNCHANGED <<history, io, platform, kill, availabilityCache, now, probes>>

\* line 578: the 500 ms delay is over
PtyDelayDone(s) ==
  /\ Settled
  /\ spawn[s].pc = "delay"
  /\ LoopIteration(s, spawn[s])
  /\ UNCHANGED <<history, io, platform, kill, availabilityCache, now, probes>>

\* The loop goes round after a shebang-shaped failure with no delay due.  The
\* next pass reads only spawnAttempt and the flag before it suspends, so
\* running it as a step of its own adds no behaviour.
PtyRetry(s) ==
  /\ Settled
  /\ spawn[s].pc = "attempt"
  /\ LoopIteration(s, spawn[s])
  /\ UNCHANGED <<history, io, platform, kill, availabilityCache, now, probes>>

\* lines 594-651, fallback branch after its awaits: pty.spawn of the node
\* binary succeeds, or it (or findNodeExecutable before it) throws into the
\* catch.  ptySpawns counts the pass as an attempt either way.
PtyFallbackSpawn(s, spawned, msg) ==
  /\ Settled
  /\ spawn[s].pc = "fallback"
  /\ LET tried == [spawn[s] EXCEPT !.ptySpawns = @ + 1] IN
     IF spawned
       THEN /\ Register(s, tried)
            /\ UNCHANGED needsNodeFallback
       ELSE AfterFailedAttempt(s, tried, msg)
  /\ UNCHANGED <<history, io, platform, kill, availabilityCache, now, probes>>

\* The caller of spawnCliProcess takes the settled promise.
SpawnReturn(s) ==
  /\ spawn[s].pc \in {"done", "failed"}
  /\ spawn' = [spawn EXCEPT ![s] = IdleSpawn]
  /\ UNCHANGED <<history, io, platform, processes, proc, kill, availabilityCache, now, probes,
                 needsNodeFallback>>

(* ---- registry helpers ---- *)

\* this.processes.delete(panelId) at lines 272 and 739; pr is the process table
\* after the rest of the step.  removals counts the deletes that removed the
\* entry of that process.
Deleted(pr, p) ==
  IF processes[p] = 0 THEN pr ELSE [pr EXCEPT ![processes[p]].removals = @ + 1]

\* Mutant: the last kill goes to every registered process.
PtyKillRegisteredAll(pr, p) ==
  [k \in DOMAIN pr |->
     IF pr[k].st = "running" /\ \E q \in Panels : processes[q] = k
       THEN [pr[k] EXCEPT !.st = "dead"]
       ELSE pr[k]]

\* lines 985-992: kill whatever process is registered under panelId now
PtyKillRegistered(pr, p) ==
  IF processes[p] # 0 /\ pr[processes[p]].st = "running"
    THEN [pr EXCEPT ![processes[p]].st = "dead"]
    ELSE pr

\* process.kill(pid, signal) / taskkill on the root pid
KillPid(pr, k) == IF pr[k].st = "running" THEN [pr EXCEPT ![k].st = "dead"] ELSE pr

Unix == platform # "win32"

(* ---- killProcess (lines 225-273) with killProcessTree (888-995) ---- *)

\* Mutant: a panel with no entry is an error, as it is for sendInput.
KillProcessRejectingAbsent(c, p) ==
  /\ Settled
  /\ kill[c].pc = "idle"
  /\ c = Min(IdleKillSlots)
  /\ IF processes[p] = 0
       THEN kill' = [kill EXCEPT ![c] = [IdleKill EXCEPT !.pc = "failed", !.panelId = p,
                                                          !.noop = TRUE]]
       ELSE kill' = [kill EXCEPT ![c] = [IdleKill EXCEPT !.pc = "cleanup", !.panelId = p,
                                                          !.target = processes[p]]]
  /\ UNCHANGED <<history, io, platform, processes, proc, spawn, availabilityCache, now, probes,
                 needsNodeFallback>>

\* lines 226-245: no entry: return at once.  Otherwise enumerate the
\* descendants and call the cleanup hook.
KillProcess(c, p) ==
  /\ Settled
  /\ kill[c].pc = "idle"
  /\ c = Min(IdleKillSlots)
  /\ IF processes[p] = 0
       THEN kill' = [kill EXCEPT ![c] = [IdleKill EXCEPT !.pc = "done", !.panelId = p,
                                                          !.noop = TRUE]]
       ELSE kill' = [kill EXCEPT ![c] = [IdleKill EXCEPT !.pc = "cleanup", !.panelId = p,
                                                          !.target = processes[p]]]
  /\ UNCHANGED <<history, io, platform, processes, proc, spawn, availabilityCache, now, probes,
                 needsNodeFallback>>

\* Mutant: the entry is deleted before the tree is killed.
KillCleanupReturnDeletingFirst(c, ok, dies) ==
  /\ Settled
  /\ kill[c].pc = "cleanup"
  /\ IF ~ok
       THEN /\ kill' = [kill EXCEPT ![c].pc = "failed"]
            /\ UNCHANGED <<proc, processes>>
       ELSE /\ kill' = [kill EXCEPT ![c].pc = IF Unix THEN "grace" ELSE "settle"]
            /\ proc' = IF dies THEN KillPid(proc, kill[c].target) ELSE proc
            /\ processes' = [processes EXCEPT ![kill[c].panelId] = 0]
  /\ UNCHANGED <<history, io, platform, spawn, availabilityCache, now, probes,
                 needsNodeFallback>>

\* cleanupCliResources settles.  Rejected: killProcess rejects (no catch).
\* Resolved: killProcessTree starts (891-927): on Unix SIGTERM to the root
\* and its group, which the root may survive; on Windows taskkill /F /T,
\* which may fail.
KillCleanupReturn(c, ok, dies) ==
  /\ Settled
  /\ kill[c].pc = "cleanup"
  /\ IF ~ok
       THEN /\ kill' = [kill EXCEPT ![c].pc = "failed"]
            /\ UNCHANGED proc
       ELSE /\ kill' = [kill EXCEPT ![c].pc = IF Unix THEN "grace" ELSE "settle"]
            /\ proc' = IF dies THEN KillPid(proc, kill[c].target) ELSE proc
  /\ UNCHANGED <<history, io, platform, processes, spawn, availabilityCache, now, probes,
                 needsNodeFallback>>

\* lines 929-961: after the 200 ms grace, SIGKILL to the root, its group and
\* the descendants; then the 500 ms settle delay starts.
KillForce(c) ==
  /\ Settled
  /\ kill[c].pc = "grace"
  /\ kill' = [kill EXCEPT ![c].pc = "settle"]
  /\ proc' = KillPid(proc, kill[c].target)
  /\ UNCHANGED <<history, io, platform, processes, spawn, availabilityCache, now, probes,
                 needsNodeFallback>>

\* Mutant: killProcess ends without the delete of line 272.
KillFinishKeepingEntry(c) ==
  /\ Settled
  /\ kill[c].pc = "settle"
  /\ kill' = [kill EXCEPT ![c].pc = "done"]
  /\ proc' = PtyKillRegistered(proc, kill[c].panelId)
  /\ UNCHANGED <<history, io, platform, processes, spawn, availabilityCache, now, probes,
                 needsNodeFallback>>

\* lines 962-994, then 251-272: verification, the final kill through the
\* pty handle registered under panelId, the report, and the delete.
KillFinish(c) ==
  /\ Settled
  /\ kill[c].pc = "settle"
  /\ kill' = [kill EXCEPT ![c].pc = "done"]
  /\ proc' = Deleted(PtyKillRegistered(proc, kill[c].panelId), kill[c].panelId)
  /\ processes' = [processes EXCEPT ![kill[c].panelId] = 0]
  /\ UNCHANGED <<history, io, platform, spawn, availabilityCache, now, probes, needsNodeFallback>>

\* The caller of killProcess takes the settled promise.
KillReturn(c) ==
  /\ kill[c].pc \in {"done", "failed"}
  /\ kill' = [kill EXCEPT ![c] = IdleKill]
  /\ UNCHANGED <<history, io, platform, processes, proc, spawn, availabilityCache, now, probes,
                 needsNodeFallback>>

(* ---- killAllProcesses (lines 299-305) ---- *)

\* lines 300-304: the keys are read and killProcess is called for each; every
\* call runs to its first await (the entry is there, so to the cleanup hook)
\* before Promise.all is awaited.  No key: Promise.all([]) resolves.
KillAllProcesses ==
  /\ Settled
  /\ killAll.pc = "idle"
  /\ \A c \in KillSlots : kill[c].pc = "idle"
  /\ LET panelIds == {p \in Panels : processes[p] # 0}
         call == CHOOSE f \in [panelIds -> KillSlots] :
                   \A p, q \in panelIds : f[p] = f[q] => p = q
     IN /\ Cardinality(panelIds) <= Cardinality(KillSlots)
        /\ kill' = [c \in KillSlots |->
                      IF \E p \in panelIds : call[p] = c
                        THEN LET p == CHOOSE q \in panelIds : call[q] = c
                             IN [IdleKill EXCEPT !.pc = "cleanup", !.panelId = p,
                                                 !.target = processes[p]]
                        ELSE kill[c]]
        /\ killAll' = [pc |-> IF panelIds = {} THEN "resolved" ELSE "waiting",
                       panelIds |-> panelIds, pending |-> panelIds]
  /\ UNCHANGED <<history, pipe, input, tree, app, platform, processes, proc, spawn, availabilityCache,
                 now, probes, needsNodeFallback>>

\* line 304: a killProcess promise settles.  Promise.all rejects with the
\* first rejection, whatever is still pending, and resolves when the last
\* promise has resolved; a promise that settles after that changes nothing.
KillAllSettle(c) ==
  /\ kill[c].pc \in {"done", "failed"}
  /\ kill' = [kill EXCEPT ![c] = IdleKill]
  /\ killAll' = IF killAll.pc # "waiting" THEN killAll
                ELSE IF kill[c].pc = "failed"
                  THEN [killAll EXCEPT !.pc = "rejected", !.pending = @ \ {kill[c].panelId}]
                ELSE [killAll EXCEPT !.pending = @ \ {kill[c].panelId},
                                     !.pc = IF killAll.pending \subseteq {kill[c].panelId}
                                              THEN "resolved" ELSE "waiting"]
  /\ UNCHANGED <<history, pipe, input, tree, app, platform, processes, proc, spawn, availabilityCache,
                 now, probes, needsNodeFallback>>

\* The caller of killAllProcesses takes the settled promise.
KillAllReturn ==
  /\ killAll.pc \in {"resolved", "rejected"}
  /\ killAll' = IdleKillAll
  /\ UNCHANGED <<history, pipe, input, tree, app, platform, processes, proc, spawn, kill,
                 availabilityCache, now, probes, needsNodeFallback>>

(* ---- sendInput (lines 206-220) ---- *)

\* Mutant: a panel with no entry is passed over in silence.
SendInputUnchecked(p) ==
  /\ Settled
  /\ input' = IF processes[p] = 0
                THEN [NoInput EXCEPT !.panelId = p]
                ELSE [NoInput EXCEPT !.panelId = p, !.writes[processes[p]] = 1]
  /\ UNCHANGED <<history, pipe, killAll, tree, app, platform, processes, proc, spawn, kill, availabilityCache,
                 now, probes, needsNodeFallback>>

\* No entry: throw (207-210).  An entry of another panel: throw (213-216).
\* Otherwise one write to the pty of the entry (219).
SendInput(p) ==
  /\ Settled
  /\ input' = IF processes[p] = 0
                THEN [NoInput EXCEPT !.panelId = p, !.threw = TRUE]
                ELSE IF proc[processes[p]].panelId # p
                  THEN [NoInput EXCEPT !.panelId = p, !.threw = TRUE]
                  ELSE [NoInput EXCEPT !.panelId = p, !.writes[processes[p]] = 1]
  /\ UNCHANGED <<history, pipe, killAll, tree, app, platform, processes, proc, spawn, kill, availabilityCache,
                 now, probes, needsNodeFallback>>

(* ---- the pty process and its onExit handler (lines 687-740) ---- *)

\* lines 710-731: flush the buffer, classify the failure, call the cleanup hook
FlushAndCleanup(pr, k) == [pr EXCEPT ![k].onExit = "cleanup"]

\* The process has ended, by itself or killed, and node-pty calls the
\* handler (688-696).  Descendants found: killProcessTree starts, its
\* signals going to a root that is gone; none: on to the flush and the
\* cleanup hook.
OnExit(k, found) ==
  /\ Settled
  /\ proc[k].st \in {"running", "dead"}
  /\ proc[k].onExit = "none"
  /\ proc' = IF found
               THEN [proc EXCEPT ![k].st = "dead", ![k].onExit = "sweep"]
               ELSE FlushAndCleanup([proc EXCEPT ![k].st = "dead"], k)
  /\ UNCHANGED <<history, io, platform, processes, spawn, kill, availabilityCache, now, probes,
                 needsNodeFallback>>

\* killProcessTree of the handler ends, after its delays (927, 961), with
\* the kill through the handle registered under panelId (985-992); then the
\* report, the flush and the cleanup hook.
OnExitSweepFinish(k) ==
  /\ Settled
  /\ proc[k].onExit = "sweep"
  /\ proc' = FlushAndCleanup(PtyKillRegistered(proc, proc[k].panelId), k)
  /\ UNCHANGED <<history, io, platform, processes, spawn, kill, availabilityCache, now, probes,
                 needsNodeFallback>>

\* lines 733-739: emit 'exit', whose listeners run inside emit and so before
\* the delete that follows it: registeredAtExit says that they find the entry
\* of this process still in the registry.
EmitExitAndDelete(pr, k) ==
  Deleted([pr EXCEPT ![k].onExit = "done",
                     ![k].exitEvents = @ + 1,
                     ![k].registeredAtExit = (processes[pr[k].panelId] = k)],
          pr[k].panelId)

\* Mutant: the handler emits 'exit' and ends without the delete of line 739.
OnExitCleanupReturnKeepingEntry(k, ok) ==
  /\ Settled
  /\ proc[k].onExit = "cleanup"
  /\ proc' = [proc EXCEPT ![k].onExit = IF ok THEN "done" ELSE "failed",
                          ![k].exitEvents = IF ok THEN @ + 1 ELSE @,
                          ![k].registeredAtExit = ok /\ processes[proc[k].panelId] = k]
  /\ UNCHANGED <<history, io, platform, processes, spawn, kill, availabilityCache, now, probes,
                 needsNodeFallback>>

\* cleanupCliResources settles in the handler: rejected, the handler ends
\* there (an unhandled rejection); resolved, the exit event and the delete.
OnExitCleanupReturn(k, ok) ==
  /\ Settled
  /\ proc[k].onExit = "cleanup"
  /\ IF ok
       THEN /\ proc' = EmitExitAndDelete(proc, k)
            /\ processes' = [processes EXCEPT ![proc[k].panelId] = 0]
       ELSE /\ proc' = [proc EXCEPT ![k].onExit = "failed"]
            /\ UNCHANGED processes
  /\ UNCHANGED <<history, io, platform, spawn, kill, availabilityCache, now, probes, needsNodeFallback>>

\* The handle of an ended process is dropped; its slot of the model is free.
Forget(k) ==
  /\ Collectable(k)
  /\ k = Min({x \in Procs : Collectable(x)})
  /\ proc' = [proc EXCEPT ![k] = Unborn]
  /\ UNCHANGED <<history, io, platform, processes, spawn, kill, availabilityCache, now, probes,
                 needsNodeFallback>>

(* ---- the output pipeline of one process (lines 663-741) ---- *)

\* A string is the sequence of its characters.
Chars == {"a", " ", "\n"}
Whitespace == {" ", "\n"}
Texts == UNION {[1 .. n -> Chars] : n \in 0 .. MaxText}
ExitCodes == {0, 1}

\* String.prototype.split('\n') (line 674)
RECURSIVE SplitLines(_)
SplitLines(s) ==
  IF \A i \in 1 .. Len(s) : s[i] # "\n"
    THEN <<s>>
    ELSE LET i == Min({j \in 1 .. Len(s) : s[j] = "\n"}) IN
         <<SubSeq(s, 1, i - 1)>> \o SplitLines(SubSeq(s, i + 1, Len(s)))

\* String.prototype.trim (lines 678, 711)
RECURSIVE Trim(_)
Trim(s) ==
  IF s = <<>> THEN s
  ELSE IF Head(s) \in Whitespace THEN Trim(Tail(s))
  ELSE IF s[Len(s)] \in Whitespace THEN Trim(SubSeq(s, 1, Len(s) - 1))
  ELSE s

\* An emitted event, or a step of spawnCliProcess the observers can tell.
\* at: how much of the text had been read when the data of the event ended.
Event(ev, src, data, at) == [ev |-> ev, src |-> src, data |-> data, at |-> at]

\* Mutant: the chunk replaces the buffer.
AppendedDroppingBuffer(buffer, data) == data

\* line 671: buffer += data
Appended(buffer, data) == buffer \o data

\* Mutant: nothing is kept of the unterminated rest.
KeptBufferEmpty(lines) == <<>>

\* line 675: lines.pop() || ''
KeptBuffer(lines) == lines[Len(lines)]

\* line 675: what pop leaves in lines
AllButLast(lines) == SubSeq(lines, 1, Len(lines) - 1)

\* lines 677-684: each line with something but whitespace in it goes, with
\* its newline, to parseCliOutput, whose events are emitted; start is the
\* place in the text before the first of the lines.
RECURSIVE LineEvents(_, _)
LineEvents(lines, start) ==
  IF lines = <<>>
    THEN <<>>
    ELSE LET line == Head(lines)
             end == start + Len(line) + 1
         IN (IF Trim(line) # <<>>
               THEN <<Event("output", "line", line \o <<"\n">>, end)>>
               ELSE <<>>)
            \o LineEvents(Tail(lines), end)

\* Mutant: 'spawned' is emitted first, the process registered and wired after.
SetupProcessHandlersLate ==
  /\ pipe.pc = "unborn"
  /\ pipe' = [pipe EXCEPT !.pc = "running",
                          !.log = <<Event("spawned", "none", <<>>, 0),
                                    Event("registered", "none", <<>>, 0),
                                    Event("wired", "none", <<>>, 0)>>]
  /\ UNCHANGED <<history, input, killAll, tree, app, platform, processes, proc, spawn, kill, availabilityCache,
                 now, probes, needsNodeFallback>>

\* lines 180-187: processes.set, setupProcessHandlers, emit 'spawned', with
\* no await between them.
SetupProcessHandlers ==
  /\ pipe.pc = "unborn"
  /\ pipe' = [pipe EXCEPT !.pc = "running",
                          !.log = <<Event("registered", "none", <<>>, 0),
                                    Event("wired", "none", <<>>, 0),
                                    Event("spawned", "none", <<>>, 0)>>]
  /\ UNCHANGED <<history, input, killAll, tree, app, platform, processes, proc, spawn, kill, availabilityCache,
                 now, probes, needsNodeFallback>>

\* lines 668-685: the pty delivers the next n characters.  The handler stays
\* subscribed for the life of the pty object, so a chunk may also come while
\* the exit handler waits or after it has ended.
PtyOnData(n) ==
  /\ pipe.pc # "unborn"
  /\ n \in 1 .. Len(pipe.text) - pipe.pos
  /\ LET data == SubSeq(pipe.text, pipe.pos + 1, pipe.pos + n)
         lines == SplitLines(Appended(pipe.buffer, data))
     IN pipe' = [pipe EXCEPT !.hasReceivedOutput = TRUE,
                             !.pos = @ + n,
                             !.chunks = @ + 1,
                             !.buffer = KeptBuffer(lines),
                             !.log = @ \o LineEvents(AllButLast(lines),
                                                     pipe.pos - Len(pipe.buffer))]
  /\ UNCHANGED <<history, input, killAll, tree, app, platform, processes, proc, spawn, kill, availabilityCache,
                 now, probes, needsNodeFallback>>

\* lines 711-716: the rest of the buffer goes to parseCliOutput as it is;
\* the buffer is not emptied.
Flushed(pp) ==
  IF Trim(pp.buffer) # <<>>
    THEN [pp EXCEPT !.log = @ \o <<Event("output", "flush", pp.buffer, pp.pos)>>]
    ELSE pp

\* Mutant: every failure is reported as a runtime failure.
ClassifiedAsRuntime(pp) ==
  IF pp.exitCode # 0
    THEN [pp EXCEPT !.log = @ \o <<Event("output", "runtime", <<>>, pp.pos)>>]
    ELSE pp

\* lines 718-728 with 746-800: a non-zero exit code gives one json output
\* event, of a startup failure if no chunk ever came, of a runtime failure
\* otherwise.  Neither handler suspends.
Classified(pp) ==
  IF pp.exitCode # 0
    THEN [pp EXCEPT !.log = @ \o <<Event("output",
                                         IF pp.hasReceivedOutput THEN "runtime" ELSE "startup",
                                         <<>>, pp.pos)>>]
    ELSE pp

\* Mutant: 'exit' is emitted before the cleanup hook is called.
PtyOnExitEmittingFirst(code, found) ==
  /\ pipe.pc = "running"
  /\ pipe' = IF found
               THEN [pipe EXCEPT !.pc = "sweep", !.exitCode = code]
               ELSE [Classified(Flushed([pipe EXCEPT
                                           !.exitCode = code,
                                           !.log = @ \o <<Event("exit", "none", <<>>, pipe.pos)>>]))
                       EXCEPT !.pc = "cleanup"]
  /\ UNCHANGED <<history, input, killAll, tree, app, platform, processes, proc, spawn, kill,
                 availabilityCache, now, probes, needsNodeFallback>>

\* lines 687-731: the pty reports the exit.  Descendants found: the handler
\* waits for getProcessInfo and killProcessTree; none: it flushes, classifies
\* and calls the cleanup hook.
PtyOnExit(code, found) ==
  /\ pipe.pc = "running"
  /\ pipe' = IF found
               THEN [pipe EXCEPT !.pc = "sweep", !.exitCode = code]
               ELSE [Classified(Flushed([pipe EXCEPT !.exitCode = code])) EXCEPT !.pc = "cleanup"]
  /\ UNCHANGED <<history, input, killAll, tree, app, platform, processes, proc, spawn, kill, availabilityCache,
                 now, probes, needsNodeFallback>>

\* lines 696-731: killProcessTree is back; the report, then flush, classify,
\* cleanup hook.
PtyOnExitSweepFinish ==
  /\ pipe.pc = "sweep"
  /\ pipe' = [Classified(Flushed([pipe EXCEPT
                                    !.log = @ \o <<Event("output", "report", <<>>, pipe.pos)>>]))
                EXCEPT !.pc = "cleanup"]
  /\ UNCHANGED <<history, input, killAll, tree, app, platform, processes, proc, spawn, kill, availabilityCache,
                 now, probes, needsNodeFallback>>

\* Mutant: the buffer is flushed after 'exit' has been emitted.
PtyOnExitCleanupReturnThenFlush(ok) ==
  /\ pipe.pc = "cleanup"
  /\ pipe' = IF ok
               THEN Flushed([pipe EXCEPT !.pc = "done",
                                         !.log = @ \o <<Event("exit", "none", <<>>, pipe.pos)>>])
               ELSE [pipe EXCEPT !.pc = "failed"]
  /\ UNCHANGED <<history, input, killAll, tree, app, platform, processes, proc, spawn, kill, availabilityCache,
                 now, probes, needsNodeFallback>>

\* lines 731-738: cleanupCliResources settles; resolved, 'exit' is emitted.
PtyOnExitCleanupReturn(ok) ==
  /\ pipe.pc = "cleanup"
  /\ pipe' = IF ok
               THEN [pipe EXCEPT !.pc = "done",
                                 !.log = @ \o <<Event("exit", "none", <<>>, pipe.pos)>>]
               ELSE [pipe EXCEPT !.pc = "failed"]
  /\ UNCHANGED <<history, input, killAll, tree, app, platform, processes, proc, spawn, kill, availabilityCache,
                 now, probes, needsNodeFallback>>

\* lines 249-262: a killProcess of the panel, started while the process was
\* registered, is back from killProcessTree and emits its report of the
\* descendants it found, wherever the exit handler of the process is by then
\* (one killProcess here).
KillProcessReport ==
  /\ pipe.pc # "unborn"
  /\ \A i \in 1 .. Len(pipe.log) : pipe.log[i].src # "killReport"
  /\ pipe' = [pipe EXCEPT !.log = @ \o <<Event("output", "killReport", <<>>, pipe.pos)>>]
  /\ UNCHANGED <<history, input, killAll, tree, app, platform, processes, proc, spawn, kill, availabilityCache,
                 now, probes, needsNodeFallback>>

(* ---- killProcess step by step (lines 225-273, 807-846, 888-995) ---- *)

\* The pty process of panel TreePanel has handle and pid Root; TreePids are
\* the pids its descendants may have: 2 a child of Root, 3 a child of 2.
Root == 1
TreePanel == "p1"
TreePids == {2, 3}
ParentOf(x) == IF x = 2 THEN Root ELSE 2

RootAlive == proc[Root].st = "running"

\* lines 807-846: the live processes whose parent is the given pid, and
\* theirs.  ps --ppid finds nothing below a parent that has ended (its
\* children have been handed to init); wmic goes by the recorded parent id.
\* A failing command is caught (841) and gives the empty list.
GetAllDescendantPids(ok, a) ==
  IF ~ok THEN {}
  ELSE LET direct == IF Unix => RootAlive THEN a \cap {2} ELSE {}
       IN direct \cup (IF 2 \in direct THEN a \cap {3} ELSE {})

Signal(sig, to, pid, ok) == [sig |-> sig, to |-> to, pid |-> pid, ok |-> ok]

\* what the steps of this section leave alone
TreeRest ==
  UNCHANGED <<history, pipe, input, killAll, app, platform, spawn, kill, availabilityCache, now,
              probes, needsNodeFallback>>

\* A descendant is started by its live parent.
TreeFork(x) ==
  /\ x \in TreePids \ tree.born
  /\ IF ParentOf(x) = Root THEN RootAlive ELSE ParentOf(x) \in tree.alive
  /\ tree' = [tree EXCEPT !.alive = @ \cup {x}, !.born = @ \cup {x}]
  /\ UNCHANGED <<proc, processes>>
  /\ TreeRest

\* A descendant ends by itself.
TreeProcessEnds(x) ==
  /\ x \in tree.alive
  /\ tree' = [tree EXCEPT !.alive = @ \ {x}]
  /\ UNCHANGED <<proc, processes>>
  /\ TreeRest

\* lines 226-245: the entry is there; the descendants are enumerated for the
\* report and the cleanup hook is called.
TreeKillProcess(enumOk) ==
  /\ tree.pc = "idle"
  /\ processes[TreePanel] = Root
  /\ tree' = [tree EXCEPT !.pc = "cleanup",
                          !.killedProcesses = GetAllDescendantPids(enumOk, tree.alive)]
  /\ UNCHANGED <<proc, processes>>
  /\ TreeRest

\* lines 245-249, 891-921: the hook settles.  Rejected: killProcess rejects.
\* Resolved: killProcessTree enumerates the descendants and, on Unix, sends
\* SIGTERM to the root (which throws for a process that is gone, caught at
\* 915, and which a living root may survive) and starts kill -TERM on the
\* group; on Windows it starts taskkill /F /T.
TreeCleanupReturn(ok, enumOk, dies) ==
  /\ tree.pc = "cleanup"
  /\ IF ~ok
       THEN /\ tree' = [tree EXCEPT !.pc = "done", !.result = "rejected"]
            /\ UNCHANGED proc
       ELSE LET d == GetAllDescendantPids(enumOk, tree.alive) IN
            /\ tree' = [tree EXCEPT
                          !.pc = IF Unix THEN "termGroup" ELSE "taskkill",
                          !.descendantPids = d, !.todo = d, !.success = TRUE,
                          !.signals = IF Unix
                                        THEN <<Signal("SIGTERM", "root", 0, RootAlive)>>
                                        ELSE <<>>]
            /\ proc' = IF Unix /\ dies THEN KillPid(proc, Root) ELSE proc
  /\ UNCHANGED processes
  /\ TreeRest

\* Mutant: a failing group signal ends the kill sequence.
TreeTermGroupReturnAborting(ok, S, dies) ==
  /\ tree.pc = "termGroup"
  /\ S \subseteq tree.alive
  /\ ~ok => S = {} /\ ~dies
  /\ tree' = [tree EXCEPT !.pc = IF ok THEN "grace" ELSE "settle",
                          !.alive = @ \ S,
                          !.signals = Append(@, Signal("SIGTERM", "group", 0, ok))]
  /\ proc' = IF dies THEN KillPid(proc, Root) ELSE proc
  /\ UNCHANGED processes
  /\ TreeRest

\* lines 921-927: kill -TERM -pid settles; rejected (no such group), caught
\* at 922.  The members of the group that do not handle the signal end.
\* Then the 200 ms timer is started.
TreeTermGroupReturn(ok, S, dies) ==
  /\ tree.pc = "termGroup"
  /\ S \subseteq tree.alive
  /\ ~ok => S = {} /\ ~dies
  /\ tree' = [tree EXCEPT !.pc = "grace",
                          !.alive = @ \ S,
                          !.signals = Append(@, Signal("SIGTERM", "group", 0, ok))]
  /\ proc' = IF dies THEN KillPid(proc, Root) ELSE proc
  /\ UNCHANGED processes
  /\ TreeRest

\* lines 927-931: the grace period is over; SIGKILL to the root
GraceThenKill(rootAlive) ==
  <<Signal("wait", "grace", 0, TRUE), Signal("SIGKILL", "root", 0, rootAlive)>>

\* Mutant: the force kill waits until the root has ended.
TreeGraceDoneOnceRootGone(dies) ==
  /\ tree.pc = "grace"
  /\ ~RootAlive
  /\ tree' = [tree EXCEPT !.pc = "killGroup",
                          !.signals = @ \o GraceThenKill(RootAlive)]
  /\ UNCHANGED <<proc, processes>>
  /\ TreeRest

\* lines 927-937: the timer fires; SIGKILL to the root (throws for a process
\* that is gone, caught at 932; dies is false for a root the signal cannot
\* end); kill -9 on the group is started.
TreeGraceDone(dies) ==
  /\ tree.pc = "grace"
  /\ tree' = [tree EXCEPT !.pc = "killGroup",
                          !.signals = @ \o GraceThenKill(RootAlive)]
  /\ proc' = IF dies THEN KillPid(proc, Root) ELSE proc
  /\ UNCHANGED processes
  /\ TreeRest

\* lines 937-945: kill -9 -pid settles (rejection caught at 938); then the
\* loop over the enumerated descendants starts, or the sweep.
TreeKillGroupReturn(ok, S) ==
  /\ tree.pc = "killGroup"
  /\ S \subseteq tree.alive
  /\ ~ok => S = {}
  /\ tree' = [tree EXCEPT !.pc = IF tree.todo # {} THEN "killChild" ELSE "sweep",
                          !.alive = @ \ S,
                          !.signals = Append(@, Signal("SIGKILL", "group", 0, ok))]
  /\ UNCHANGED <<proc, processes>>
  /\ TreeRest

\* Mutant: the loop does not go on to the next descendant.
NextChildStuck(todo, x) == todo

\* lines 943, 903: the for loop goes on to the next descendant
NextChild(todo, x) == todo \ {x}

\* lines 943-954: kill -9 of one enumerated descendant settles; rejected
\* when that process is gone (caught at 947).  Then the next, or pkill.
TreeKillChildReturn ==
  /\ tree.pc = "killChild"
  /\ LET x == Min(tree.todo)
         rest == NextChild(tree.todo, x)
     IN tree' = [tree EXCEPT !.pc = IF rest # {} THEN "killChild" ELSE "sweep",
                             !.todo = rest,
                             !.alive = @ \ {x},
                             !.signals = Append(@, Signal("SIGKILL", "pid", x,
                                                          x \in tree.alive))]
  /\ UNCHANGED <<proc, processes>>
  /\ TreeRest

\* lines 954-961: pkill -9 -P pid settles: the live children of the root
\* end; rejected when there is none (caught at 955).  Then the 500 ms timer.
TreeSweepReturn ==
  /\ tree.pc = "sweep"
  /\ LET children == IF RootAlive THEN tree.alive \cap {2} ELSE {}
     IN tree' = [tree EXCEPT !.pc = "settle",
                             !.alive = @ \ children,
                             !.signals = Append(@, Signal("SIGKILL", "children", 0,
                                                          children # {}))]
  /\ UNCHANGED <<proc, processes>>
  /\ TreeRest

\* lines 899-910: taskkill /F /T settles.  Resolved: the root and its tree
\* have ended.  Rejected (caught at 901): taskkill /F for each enumerated
\* descendant.  Then the 500 ms timer.
TreeTaskkillReturn(ok) ==
  /\ tree.pc = "taskkill"
  /\ tree' = [tree EXCEPT !.pc = IF ~ok /\ tree.todo # {} THEN "taskkillChild" ELSE "settle",
                          !.alive = IF ok THEN {} ELSE @,
                          !.signals = Append(@, Signal("taskkill /F /T", "root", 0, ok))]
  /\ proc' = IF ok THEN KillPid(proc, Root) ELSE proc
  /\ UNCHANGED processes
  /\ TreeRest

\* lines 903-909: taskkill /F of one enumerated descendant settles
TreeTaskkillChildReturn ==
  /\ tree.pc = "taskkillChild"
  /\ LET x == Min(tree.todo)
         rest == NextChild(tree.todo, x)
     IN tree' = [tree EXCEPT !.pc = IF rest # {} THEN "taskkillChild" ELSE "settle",
                             !.todo = rest,
                             !.alive = @ \ {x},
                             !.signals = Append(@, Signal("taskkill /F", "pid", x,
                                                          x \in tree.alive))]
  /\ UNCHANGED <<proc, processes>>
  /\ TreeRest

\* Mutant: an exception inside killProcessTree is not caught.
OuterCatchMissing(t, threw) ==
  IF threw THEN [t EXCEPT !.treeResult = "threw"] ELSE t

\* lines 979-982: whatever is thrown inside the try is caught: success = false
OuterCatch(t, threw) ==
  IF threw THEN [t EXCEPT !.caught = TRUE, !.success = FALSE] ELSE t

\* lines 962-978: the descendants are enumerated again; any found: success
\* is false and the warning naming them is emitted.
Verified(t, remaining) ==
  IF remaining # {}
    THEN [t EXCEPT !.success = FALSE, !.zombies = Append(@, remaining)]
    ELSE t

\* Mutant: the last kill is made only after a clean kill sequence.
FinalPtyKillIfClean(t, registered, ok) ==
  IF registered /\ t.success
    THEN [t EXCEPT !.ptyKills = @ + 1, !.ptyKillThrew = ~ok]
    ELSE t

\* lines 985-992: the handle registered under panelId, if any, is killed;
\* an error of that kill is caught.
FinalPtyKill(t, registered, ok) ==
  IF registered THEN [t EXCEPT !.ptyKills = @ + 1, !.ptyKillThrew = ~ok] ELSE t

\* line 994: return success
Returned(t) ==
  IF t.treeResult = "threw" THEN t
  ELSE [t EXCEPT !.treeResult = IF t.success THEN "true" ELSE "false"]

\* lines 961-994, then 251-272: the settle delay is over.  Verification;
\* a listener of the warning that throws inside emit (971) is caught at 979;
\* the last kill through the registered handle, whose error (ptyKillOk
\* false) is caught at 990; return.  Back in killProcess: the report of the
\* descendants found at the start, if any (a listener that throws inside
\* this emit ends killProcess with that error), and the delete.
TreeVerify(enumOk, emitThrows, ptyKillOk, reportThrows) ==
  /\ tree.pc = "settle"
  /\ LET remaining == GetAllDescendantPids(enumOk, tree.alive)
         registered == processes[TreePanel] # 0
         t1 == [tree EXCEPT !.verified = TRUE, !.leftAlive = tree.alive]
         t2 == OuterCatch(Verified(t1, remaining), emitThrows /\ remaining # {})
         t3 == Returned(FinalPtyKill(t2, registered, ptyKillOk))
         threw == t3.treeResult = "threw" \/ (reportThrows /\ tree.killedProcesses # {})
     IN /\ tree' = [t3 EXCEPT !.pc = "done",
                              !.result = IF threw THEN "rejected" ELSE "resolved"]
        /\ proc' = LET pr == IF ptyKillOk THEN PtyKillRegistered(proc, TreePanel) ELSE proc
                   IN IF threw THEN pr ELSE Deleted(pr, TreePanel)
        /\ processes' = IF threw THEN processes ELSE [processes EXCEPT ![TreePanel] = 0]
  /\ TreeRest

(* ---- the start of the application (index.ts 524-703) ---- *)

\* what the steps of index.ts leave alone
AppRest ==
  UNCHANGED <<history, pipe, input, killAll, tree, platform, processes, proc, spawn, kill,
              availabilityCache, now, probes, needsNodeFallback>>

\* lines 675-677, 524-526: the app is ready; initializeServices is called
\* and waits for configManager.initialize().
AppWhenReady ==
  /\ app.pc = "notReady"
  /\ app' = [app EXCEPT !.pc = "config"]
  /\ AppRest

\* lines 528-552: logger, database, session manager; the permission IPC
\* server is started.
ConfigInitialized ==
  /\ app.pc = "config"
  /\ ~app.exited
  /\ app' = [app EXCEPT !.pc = "ipc"]
  /\ AppRest

\* lines 551-572: the server has started, or not (caught at 556:
\* permissionIpcServer = null).  Then the worktree manager and, with an
\* active project, initializeProject; the manager factory; createManager.
PermissionIpcStartReturn(ok) ==
  /\ app.pc = "ipc"
  /\ ~app.exited
  /\ app' = [app EXCEPT !.permissionIpcServer = IF ok THEN "server" ELSE "null",
                        !.pc = IF app.activeProject THEN "project" ELSE "manager"]
  /\ AppRest

\* lines 568-574: initializeProject is back; createManager('claude') is called
InitializeProjectReturn ==
  /\ app.pc = "project"
  /\ ~app.exited
  /\ app' = [app EXCEPT !.pc = "manager"]
  /\ AppRest

\* lines 587-671: no default manager: the error box, app.quit() and return.
\* Otherwise the remaining services, registerIpcHandlers,
\* setupEventListeners, the version checker and the git status polling.
AfterCreateManager(a) ==
  IF a.defaultCliManager = "null"
    THEN [a EXCEPT !.errorBoxes = @ + 1, !.quit = TRUE]
    ELSE [a EXCEPT !.versionChecker = TRUE, !.services = TRUE]

\* lines 574-671, 678-679: createManager settles; a rejection is caught at
\* 581 and defaultCliManager = null.  initializeServices returns either way
\* and app.whenReady goes on to createWindow.
CreateManagerReturn(ok) ==
  /\ app.pc = "manager"
  /\ ~app.exited
  /\ app' = [AfterCreateManager([app EXCEPT
                                   !.defaultCliManager = IF ok THEN "manager" ELSE "null",
                                   !.managerFailed = ~ok])
               EXCEPT !.pc = "window"]
  /\ AppRest

\* lines 679-689: the window is there; the auto-updater is set up and the
\* startup version check scheduled.
CreateWindowReturn ==
  /\ app.pc = "window"
  /\ ~app.exited
  /\ app' = [app EXCEPT !.pc = "running", !.mainWindow = TRUE, !.windows = 1,
                        !.startupCheck = "scheduled"]
  /\ AppRest

\* lines 684-687: the timer fires; versionChecker.checkOnStartup() throws a
\* TypeError when versionChecker was never assigned.
StartupVersionCheck ==
  /\ app.startupCheck = "scheduled"
  /\ ~app.exited
  /\ app' = [app EXCEPT !.startupCheck = IF app.versionChecker THEN "ran" ELSE "threw"]
  /\ AppRest

\* lines 699-703: the user closes the window; everywhere but on macOS the
\* app quits.
WindowAllClosed ==
  /\ app.windows = 1
  /\ ~app.exited
  /\ app' = [app EXCEPT !.windows = 0, !.quit = @ \/ platform # "darwin"]
  /\ AppRest

\* lines 691-696: the app is activated with no window open: createWindow
Activate ==
  /\ app.pc = "running"
  /\ app.windows = 0
  /\ ~app.exited
  /\ app' = [app EXCEPT !.windows = 1]
  /\ AppRest

\* app.quit() takes effect: the windows are closed and the process ends.
AppExits ==
  /\ app.quit
  /\ ~app.exited
  /\ app' = [app EXCEPT !.exited = TRUE, !.windows = 0]
  /\ AppRest

(* ---- specifications ---- *)

SpawnStep ==
  \/ \E s \in SpawnSlots, p \in Panels : StartPanel(s, p)
  \/ \E s \in SpawnSlots, r \in Results : TestCliAvailabilityReturn(s, r)
  \/ \E s \in SpawnSlots, ok \in BOOLEAN : BuildEnvironmentReturn(s, ok)
  \/ \E s \in SpawnSlots : PtyDelayDone(s)
  \/ \E s \in SpawnSlots : PtyRetry(s)
  \/ \E s \in SpawnSlots, ok \in BOOLEAN, msg \in ErrorMessages : PtyFallbackSpawn(s, ok, msg)
  \/ \E s \in SpawnSlots : SpawnReturn(s)

KillStep ==
  \/ \E c \in KillSlots, p \in Panels : KillProcess(c, p)
  \/ \E c \in KillSlots, ok \in BOOLEAN, dies \in BOOLEAN : KillCleanupReturn(c, ok, dies)
  \/ \E c \in KillSlots : KillForce(c)
  \/ \E c \in KillSlots : KillFinish(c)
  \/ \E c \in KillSlots : KillReturn(c)

ExitStep ==
  \/ \E k \in Procs, found \in BOOLEAN : OnExit(k, found)
  \/ \E k \in Procs : OnExitSweepFinish(k)
  \/ \E k \in Procs, ok \in BOOLEAN : OnExitCleanupReturn(k, ok)
  \/ \E k \in Procs : Forget(k)

\* The manager with one start call and one stop call in flight at a time.
Next == SpawnStep \/ KillStep \/ ExitStep

Spec == Init /\ [][Next]_vars

\* The availability cache under overlapping start calls, a moving clock and
\* invalidation; no process is stopped here.
InitCache ==
  /\ platform = "linux"
  /\ processes = [p \in HostPanels |-> 0]
  /\ proc = [k \in Procs |-> Unborn]
  /\ spawn = [s \in TwoCalls |-> IdleSpawn]
  /\ kill = [c \in OneCall |-> IdleKill]
  /\ availabilityCache = NoCache
  /\ now = 0
  /\ probes = 0
  /\ needsNodeFallback = FALSE
  /\ served = NoCache
  /\ invalidated = FALSE
  /\ pipe = IdlePipe
  /\ input = NoInput
  /\ killAll = IdleKillAll
  /\ tree = IdleTree
  /\ app = NotStarted
  /\ session = [s \in TwoCalls |-> "none"]

NextCache ==
  \/ SpawnStep
  \/ ClearAvailabilityCache
  \/ \E d \in TickSteps : Tick(d)

SpecCache == InitCache /\ [][NextCache]_vars

\* One process from its registration on, writing any text in any chunks and
\* exiting at any point, as the observers of its events see it.
InitPipe ==
  /\ platform = "linux"
  /\ processes = [p \in HostPanels |-> 0]
  /\ proc = [k \in Procs |-> Unborn]
  /\ spawn = [s \in OneCall |-> IdleSpawn]
  /\ kill = [c \in OneCall |-> IdleKill]
  /\ availabilityCache = NoCache
  /\ now = 0
  /\ probes = 0
  /\ needsNodeFallback = FALSE
  /\ served = NoCache
  /\ invalidated = FALSE
  /\ \E txt \in Texts : pipe = [IdlePipe EXCEPT !.text = txt]
  /\ input = NoInput
  /\ killAll = IdleKillAll
  /\ tree = IdleTree
  /\ app = NotStarted
  /\ session = [s \in TwoCalls |-> "none"]

NextPipe ==
  \/ SetupProcessHandlers
  \/ \E n \in 1 .. MaxText : PtyOnData(n)
  \/ \E code \in ExitCodes, found \in BOOLEAN : PtyOnExit(code, found)
  \/ PtyOnExitSweepFinish
  \/ \E ok \in BOOLEAN : PtyOnExitCleanupReturn(ok)
  \/ KillProcessReport

SpecPipe == InitPipe /\ [][NextPipe]_vars

\* The manager of Spec on one platform, with sendInput calls at any point.
InitInput == Init /\ platform = "linux"

NextInput == Next \/ \E p \in Panels : SendInput(p)

SpecInput == InitInput /\ [][NextInput]_vars

\* The manager with killAllProcesses as the only way to stop: one start call
\* at a time, one killProcess per registered panel.
InitKillAll ==
  /\ platform = "linux"
  /\ processes = [p \in HostPanels |-> 0]
  /\ proc = [k \in Procs |-> Unborn]
  /\ spawn = [s \in OneCall |-> IdleSpawn]
  /\ kill = [c \in TwoCalls |-> IdleKill]
  /\ availabilityCache = NoCache
  /\ now = 0
  /\ probes = 0
  /\ needsNodeFallback = FALSE
  /\ served = NoCache
  /\ invalidated = FALSE
  /\ pipe = IdlePipe
  /\ input = NoInput
  /\ killAll = IdleKillAll
  /\ tree = IdleTree
  /\ app = NotStarted
  /\ session = [s \in TwoCalls |-> "none"]

NextKillAll ==
  \/ SpawnStep
  \/ ExitStep
  \/ KillAllProcesses
  \/ \E c \in KillSlots, ok \in BOOLEAN, dies \in BOOLEAN : KillCleanupReturn(c, ok, dies)
  \/ \E c \in KillSlots : KillForce(c)
  \/ \E c \in KillSlots : KillFinish(c)
  \/ \E c \in KillSlots : KillAllSettle(c)
  \/ KillAllReturn

SpecKillAll == InitKillAll /\ [][NextKillAll]_vars

\* One killProcess call on a registered process with descendants, every
\* signal and kill command a step, while the process, its descendants and
\* its exit handler go their own way.
InitTree ==
  /\ platform \in Platforms
  /\ processes = [p \in HostPanels |-> IF p = TreePanel THEN Root ELSE 0]
  /\ proc = [k \in Procs |-> IF k = Root THEN [Unborn EXCEPT !.panelId = TreePanel,
                                                                !.st = "running"]
                                          ELSE Unborn]
  /\ spawn = [s \in OneCall |-> IdleSpawn]
  /\ kill = [c \in OneCall |-> IdleKill]
  /\ availabilityCache = NoCache
  /\ now = 0
  /\ probes = 0
  /\ needsNodeFallback = FALSE
  /\ served = NoCache
  /\ invalidated = FALSE
  /\ pipe = IdlePipe
  /\ input = NoInput
  /\ killAll = IdleKillAll
  /\ tree = IdleTree
  /\ app = NotStarted
  /\ session = [s \in TwoCalls |-> "none"]

\* the continuations of a killProcess call: each is run by the event loop
\* when the timer, the subprocess or the hook it waits for is done
TreeContinue ==
  \/ \E ok \in BOOLEAN, enumOk \in BOOLEAN, dies \in BOOLEAN : TreeCleanupReturn(ok, enumOk, dies)
  \/ \E ok \in BOOLEAN, S \in SUBSET TreePids, dies \in BOOLEAN : TreeTermGroupReturn(ok, S, dies)
  \/ \E dies \in BOOLEAN : TreeGraceDone(dies)
  \/ \E ok \in BOOLEAN, S \in SUBSET TreePids : TreeKillGroupReturn(ok, S)
  \/ TreeKillChildReturn
  \/ TreeSweepReturn
  \/ \E ok \in BOOLEAN : TreeTaskkillReturn(ok)
  \/ TreeTaskkillChildReturn
  \/ \E enumOk \in BOOLEAN, emitThrows \in BOOLEAN, ptyKillOk \in BOOLEAN, reportThrows \in BOOLEAN :
       TreeVerify(enumOk, emitThrows, ptyKillOk, reportThrows)

TreeStep ==
  \/ \E enumOk \in BOOLEAN : TreeKillProcess(enumOk)
  \/ TreeContinue

NextTree ==
  \/ TreeStep
  \/ \E x \in TreePids : TreeFork(x)
  \/ \E x \in TreePids : TreeProcessEnds(x)
  \/ ExitStep

SpecTree == InitTree /\ [][NextTree]_vars

\* Timers fire and subprocesses and the cleanup hook end: a continuation
\* that is waiting is run.
SpecTreeLive == SpecTree /\ WF_vars(TreeContinue)

\* The manager used both through the panel-keyed entry points and through
\* the deprecated session-keyed ones.  A sessionId may be the same string as
\* a panelId the host has issued.
SessionIds == {"p1"}
IssuedPanelIds == {"p1"}

\* stopSession (lines 365-369): stopPanel(virtualPanelId); stopPanel
\* (abstract, line 333) stops the panel through killProcess.
StopSession(c, sessionId) == KillProcess(c, VirtualPanelId(sessionId))

InitSession ==
  /\ platform = "linux"
  /\ processes = [p \in IssuedPanelIds \cup {VirtualPanelId(sid) : sid \in SessionIds} |-> 0]
  /\ proc = [k \in Procs |-> Unborn]
  /\ spawn = [s \in OneCall |-> IdleSpawn]
  /\ kill = [c \in OneCall |-> IdleKill]
  /\ availabilityCache = NoCache
  /\ now = 0
  /\ probes = 0
  /\ needsNodeFallback = FALSE
  /\ served = NoCache
  /\ invalidated = FALSE
  /\ pipe = IdlePipe
  /\ input = NoInput
  /\ killAll = IdleKillAll
  /\ tree = IdleTree
  /\ app = NotStarted
  /\ session = [s \in TwoCalls |-> "none"]

NextSession ==
  \/ \E s \in SpawnSlots, p \in IssuedPanelIds : StartPanel(s, p)
  \/ \E s \in SpawnSlots, sid \in SessionIds : StartSession(s, sid)
  \/ \E s \in SpawnSlots, r \in Results : TestCliAvailabilityReturn(s, r)
  \/ \E s \in SpawnSlots, ok \in BOOLEAN : BuildEnvironmentReturn(s, ok)
  \/ \E s \in SpawnSlots : PtyDelayDone(s)
  \/ \E s \in SpawnSlots : PtyRetry(s)
  \/ \E s \in SpawnSlots, ok \in BOOLEAN, msg \in ErrorMessages : PtyFallbackSpawn(s, ok, msg)
  \/ \E s \in SpawnSlots : SpawnReturn(s)
  \/ \E c \in KillSlots, p \in IssuedPanelIds : KillProcess(c, p)
  \/ \E c \in KillSlots, sid \in SessionIds : StopSession(c, sid)
  \/ \E c \in KillSlots, ok \in BOOLEAN, dies \in BOOLEAN : KillCleanupReturn(c, ok, dies)
  \/ \E c \in KillSlots : KillForce(c)
  \/ \E c \in KillSlots : KillFinish(c)
  \/ \E c \in KillSlots : KillReturn(c)
  \/ ExitStep

SpecSession == InitSession /\ [][NextSession]_vars

\* The application from app.whenReady on, on every platform, with and
\* without an active project.
InitApp ==
  /\ platform \in Platforms
  /\ processes = [p \in HostPanels |-> 0]
  /\ proc = [k \in Procs |-> Unborn]
  /\ spawn = [s \in OneCall |-> IdleSpawn]
  /\ kill = [c \in OneCall |-> IdleKill]
  /\ availabilityCache = NoCache
  /\ now = 0
  /\ probes = 0
  /\ needsNodeFallback = FALSE
  /\ served = NoCache
  /\ invalidated = FALSE
  /\ pipe = IdlePipe
  /\ input = NoInput
  /\ killAll = IdleKillAll
  /\ tree = IdleTree
  /\ \E ap \in BOOLEAN : app = [NotStarted EXCEPT !.activeProject = ap]
  /\ session = [s \in TwoCalls |-> "none"]

NextApp ==
  \/ AppWhenReady
  \/ ConfigInitialized
  \/ \E ok \in BOOLEAN : PermissionIpcStartReturn(ok)
  \/ InitializeProjectReturn
  \/ \E ok \in BOOLEAN : CreateManagerReturn(ok)
  \/ CreateWindowReturn
  \/ StartupVersionCheck
  \/ WindowAllClosed
  \/ Activate
  \/ AppExits

SpecApp == InitApp /\ [][NextApp]_vars

(* ======================= claims ======================= *)

(* C1: whenever an exit event of a process is delivered, the registry entry *)
(* of that process has already been removed, so a listener of the event     *)
(* finds isPanelRunning(panelId) false.                                     *)
C1_ExitAfterRemoval ==
  \A k \in Procs : proc[k].exitEvents > 0 => ~proc[k].registeredAtExit

(* C2: every spawned and registered process gets exactly one exit event,    *)
(* never two, and never none once its exit handling has ended.              *)
C2_ExactlyOneExit ==
  \A k \in Procs :
    /\ proc[k].exitEvents <= 1
    /\ proc[k].onExit \in {"done", "failed"} => proc[k].exitEvents = 1

C4_OneAlivePerPanel ==
  \A p \in Panels :
    Cardinality({k \in Procs : proc[k].st = "running" /\ proc[k].panelId = p}) <= 1

(* C5: isPanelRunning(panelId) holds exactly when the registry has an entry *)
(* for panelId, which is a process spawned for that panel: it holds when    *)
(* spawnCliProcess resolves, and fails when killProcess(panelId) resolves   *)
(* and when the exit handling of the panel's process completes.             *)
C5_RunningIffRegistered ==
  /\ [](\A p \in Panels :
          IsPanelRunning(p) =>
            proc[processes[p]].st # "unborn" /\ proc[processes[p]].panelId = p)
  /\ [][/\ \A s \in SpawnSlots :
             spawn[s].pc # "done" /\ spawn'[s].pc = "done" =>
               /\ spawn'[s].child # 0
               /\ processes'[spawn'[s].panelId] = spawn'[s].child
        /\ \A c \in KillSlots :
             kill[c].pc # "done" /\ kill'[c].pc = "done" =>
               processes'[kill'[c].panelId] = 0
        /\ \A k \in Procs :
             proc[k].onExit # "done" /\ proc'[k].onExit = "done" =>
               processes'[proc[k].panelId] = 0]_vars

C5_StoppedPanelNotRunning ==
  \E c \in KillSlots :
    /\ kill[c].pc = "done" /\ ~kill[c].noop
    /\ proc[kill[c].target].onExit # "done"
    /\ ~IsPanelRunning(kill[c].panelId)

(* C6: when the probe reports the tool unavailable, spawnCliProcess emits   *)
(* one json error output event and one error, makes no spawn attempt,       *)
(* emits no spawned event and leaves the registry as it was.                *)
C6_UnavailableFailsClean ==
  /\ [](\A s \in SpawnSlots :
          spawn[s].availability = "unavailable" =>
            /\ spawn[s].pc = "failed"
            /\ spawn[s].jsonOut = 1 /\ spawn[s].errorEv = 1
            /\ spawn[s].ptySpawns = 0 /\ spawn[s].spawnedEv = 0 /\ spawn[s].child = 0)
  /\ [][\A s \in SpawnSlots :
          spawn'[s].availability = "unavailable" /\ spawn[s].availability # "unavailable"
            => processes' = processes /\ proc' = proc]_vars

C6_UnavailableWhileOtherRuns ==
  \E s \in SpawnSlots :
    /\ spawn[s].availability = "unavailable"
    /\ spawn[s].pc = "failed"
    /\ RegistryNonEmpty

(* C7: two getCachedAvailability calls made within CACHE_TTL of a cached    *)
(* result, with no clearAvailabilityCache in between, return the identical  *)
(* result, and the second invokes no testCliAvailability.                   *)
C7_SameResultWithinTtl ==
  [][\A s \in SpawnSlots :
       /\ spawn[s].pc = "idle" /\ spawn'[s].pc # "idle"
       /\ served # NoCache
       /\ (now - served.timestamp) < CACHE_TTL
       => /\ spawn'[s].availability = served.result
          /\ probes' = probes]_vars

(* C8: a getCachedAvailability call that starts after the cached entry has  *)
(* expired, or as the first call after clearAvailabilityCache, invokes      *)
(* testCliAvailability again and returns that fresh result.                 *)
C8_ReprobeAfterExpiryOrClear ==
  /\ [][\A s \in SpawnSlots :
          /\ spawn[s].pc = "idle" /\ spawn'[s].pc # "idle"
          /\ \/ invalidated
             \/ /\ availabilityCache # NoCache
                /\ (now - availabilityCache.timestamp) >= CACHE_TTL
          => spawn'[s].pc = "probing" /\ probes' = probes + 1]_vars
  /\ [][\A s \in SpawnSlots :
          spawn[s].pc = "probing" /\ spawn'[s].pc # "probing"
          => /\ availabilityCache'.id = spawn[s].probe
             /\ spawn'[s].availability = availabilityCache'.result]_vars

(* C9: a spawnPtyProcess call makes at most two spawn attempts, and after a *)
(* failed second attempt it has failed.                                     *)
C9_AtMostTwoAttempts ==
  \A s \in SpawnSlots :
    /\ spawn[s].ptySpawns <= 2
    /\ spawn[s].spawnAttempt <= 2
    /\ spawn[s].spawnAttempt = 2 => spawn[s].pc = "failed"

C9_SecondAttemptFailed ==
  \E s \in SpawnSlots :
    spawn[s].ptySpawns = 2 /\ spawn[s].spawnAttempt = 2 /\ spawn[s].pc = "failed"

(* C10: the fallback flag, once set, stays set; no direct spawn is made     *)
(* while it is set; and a call that made no direct spawn makes one attempt  *)
(* at most, the interpreter fallback.                                       *)
C10_FlagSticky ==
  /\ [][needsNodeFallback => needsNodeFallback']_vars
  /\ [][\A s \in SpawnSlots :
          spawn'[s].directSpawns > spawn[s].directSpawns => ~needsNodeFallback]_vars
  /\ [](\A s \in SpawnSlots : spawn[s].directSpawns = 0 => spawn[s].ptySpawns <= 1)

C10_LaterCallFallsBackOnly ==
  \E s \in SpawnSlots :
    /\ needsNodeFallback
    /\ spawn[s].pc = "done"
    /\ spawn[s].directSpawns = 0 /\ spawn[s].ptySpawns = 1

(* C11: the fallback flag is set only by a call whose first, direct attempt *)
(* fails with a message holding one of the four signatures, and that call   *)
(* goes on to the interpreter attempt; a direct attempt failing with any    *)
(* other message ends the call after that one attempt, the flag unchanged.  *)
C11_RetryOnlyOnShebangError ==
  /\ [][needsNodeFallback' /\ ~needsNodeFallback =>
          \E s \in SpawnSlots :
            /\ spawn'[s].directSpawns = spawn[s].directSpawns + 1
            /\ spawn'[s].ptySpawns = 1
            /\ spawn'[s].lastError \cap Signatures # {}]_vars
  /\ [][\A s \in SpawnSlots :
          /\ spawn'[s].directSpawns = spawn[s].directSpawns + 1
          /\ spawn'[s].spawnAttempt = spawn[s].spawnAttempt + 1
          => IF spawn'[s].lastError \cap Signatures # {}
               THEN needsNodeFallback' /\ spawn'[s].pc \in {"delay", "attempt"}
               ELSE /\ spawn'[s].pc = "failed"
                    /\ spawn'[s].ptySpawns = 1
                    /\ needsNodeFallback' = needsNodeFallback]_vars

C11_OtherErrorFailsAtOnce ==
  \E s \in SpawnSlots :
    /\ spawn[s].pc = "failed"
    /\ spawn[s].directSpawns = 1 /\ spawn[s].ptySpawns = 1
    /\ spawn[s].lastError \cap Signatures = {}
    /\ ~needsNodeFallback

(* ---- the terms of the claims about the output pipeline ---- *)

Max(S) == CHOOSE x \in S : \A y \in S : y <= x

\* The newlines of a string, and the line each one ends, newline included.
Newlines(s) == {i \in 1 .. Len(s) : s[i] = "\n"}

LineEndingAt(s, i) == SubSeq(s, Max({j \in Newlines(s) : j < i} \cup {0}) + 1, i)

\* The newline-terminated lines of s, first to last.
CompleteLines(s) ==
  [k \in 1 .. Cardinality(Newlines(s)) |->
     LineEndingAt(s, CHOOSE i \in Newlines(s) :
                       Cardinality({j \in Newlines(s) : j <= i}) = k)]

\* What follows the last newline of s.
Remainder(s) == SubSeq(s, Max(Newlines(s) \cup {0}) + 1, Len(s))

HasContent(s) == \E i \in 1 .. Len(s) : s[i] \notin Whitespace

\* The strings handed to parseCliOutput by the data handler, in order.
ParsedLines(log) ==
  LET lines == SelectSeq(log, LAMBDA e : e.src = "line")
  IN [k \in 1 .. Len(lines) |-> lines[k].data]

(* C12: however the text read so far was cut into chunks, the lines handed  *)
(* to parseCliOutput, and the buffer, are those of the same text delivered  *)
(* as one chunk; so any two ways of cutting a text give the same lines.     *)
C12_ChunkBoundaryIndependence ==
  LET whole == SplitLines(SubSeq(pipe.text, 1, pipe.pos))
  IN /\ SelectSeq(pipe.log, LAMBDA e : e.src = "line") = LineEvents(AllButLast(whole), 0)
     /\ pipe.buffer = KeptBuffer(whole)

C12_LineAcrossThreeChunks ==
  /\ pipe.chunks = Len(pipe.text)
  /\ pipe.chunks >= 3
  /\ \E i \in 1 .. Len(pipe.log) : pipe.log[i].src = "line" /\ Len(pipe.log[i].data) >= 3

(* C13 as stated: on each chunk every newline-terminated line of buffer +   *)
(* chunk is handed to parseCliOutput, none skipped, and what follows the    *)
(* last newline is the new buffer.                                          *)
C13_EveryCompleteLineParsed ==
  [][pipe'.pos > pipe.pos =>
       LET s == pipe.buffer \o SubSeq(pipe.text, pipe.pos + 1, pipe'.pos)
       IN /\ ParsedLines(pipe'.log) = ParsedLines(pipe.log) \o CompleteLines(s)
          /\ pipe'.buffer = Remainder(s)]_vars

(* C13 amended: on each chunk every newline-terminated line of buffer +     *)
(* chunk that holds more than whitespace is handed to parseCliOutput, in    *)
(* order; lines of whitespace only are dropped; what follows the last       *)
(* newline is the new buffer.                                               *)
C13_EveryLineWithContentParsed ==
  [][pipe'.pos > pipe.pos =>
       LET s == pipe.buffer \o SubSeq(pipe.text, pipe.pos + 1, pipe'.pos)
       IN /\ ParsedLines(pipe'.log) =
               ParsedLines(pipe.log) \o SelectSeq(CompleteLines(s), HasContent)
          /\ pipe'.buffer = Remainder(s)]_vars

C13_BlankLineDroppedRestKept ==
  /\ pipe.pos = Len(pipe.text)
  /\ Len(CompleteLines(pipe.text)) = 2
  /\ Len(ParsedLines(pipe.log)) = 1
  /\ pipe.buffer # <<>>

(* C14: a buffer with content in it when the exit handler flushes is handed *)
(* to parseCliOutput by that flush, once, and no part of it is handed on    *)
(* again: no line parsed after the flush starts inside the flushed text,    *)
(* also when a chunk arrives after the flush.                               *)
C14_FlushedExactlyOnce ==
  /\ [][pipe.pc \in {"running", "sweep"} /\ pipe'.pc = "cleanup" /\ HasContent(pipe.buffer) =>
          Cardinality({i \in 1 .. Len(pipe'.log) :
                         pipe'.log[i].src = "flush" /\ pipe'.log[i].data = pipe.buffer}) = 1]_vars
  /\ [](\A i, j \in 1 .. Len(pipe.log) :
          i < j /\ pipe.log[i].src = "flush" /\ pipe.log[j].src = "line" =>
            pipe.log[j].at - Len(pipe.log[j].data) >= pipe.log[i].at)

\* The output events parsed from lines are in the order the lines completed.
LinesInOrder(log) ==
  \A i, j \in 1 .. Len(log) :
    i < j /\ log[i].src = "line" /\ log[j].src = "line" => log[i].at < log[j].at

(* C15 as stated: output events come in the order their lines completed,    *)
(* and the event flushed from the final partial line is the last output     *)
(* event before the exit event of the process.                              *)
C15_FlushIsLastOutputBeforeExit ==
  /\ LinesInOrder(pipe.log)
  /\ \A f, e \in 1 .. Len(pipe.log) :
       pipe.log[f].src = "flush" /\ pipe.log[e].ev = "exit" =>
         /\ f < e
         /\ \A k \in f + 1 .. e - 1 : pipe.log[k].ev # "output"

(* C15 amended: output events parsed from lines come in the order the lines *)
(* completed; the event flushed from the final partial line comes before    *)
(* the exit event and after the event of every line completed before the    *)
(* flush; between the two only failure-classification events, the report of *)
(* a killProcess in progress and events of chunks that arrived after the    *)
(* flush are emitted.                                                       *)
C15_FlushBeforeExit ==
  /\ LinesInOrder(pipe.log)
  /\ \A f, e \in 1 .. Len(pipe.log) :
       pipe.log[f].src = "flush" /\ pipe.log[e].ev = "exit" =>
         /\ f < e
         /\ \A k \in 1 .. f - 1 : pipe.log[k].src = "line" => pipe.log[k].at <= pipe.log[f].at
         /\ \A k \in f + 1 .. e - 1 :
              \/ pipe.log[k].src \in {"startup", "runtime", "killReport"}
              \/ pipe.log[k].src = "line" /\ pipe.log[k].at > pipe.log[f].at

C15_FailureEventAfterFlush ==
  \E f \in 1 .. Len(pipe.log) :
    /\ f + 2 = Len(pipe.log)
    /\ pipe.log[f].src = "flush"
    /\ pipe.log[f + 1].src = "runtime"
    /\ pipe.log[f + 2].ev = "exit"
    /\ \E k \in 1 .. f - 1 : pipe.log[k].src = "line"

(* C16: when 'spawned' is emitted the process has been registered and its   *)
(* handlers wired, and every output event of the process comes after its    *)
(* spawned event.                                                           *)
C16_SpawnedBeforeOutput ==
  \A i \in 1 .. Len(pipe.log) :
    /\ pipe.log[i].ev = "spawned" =>
         /\ \E r \in 1 .. i - 1 : pipe.log[r].ev = "registered"
         /\ \E w \in 1 .. i - 1 : pipe.log[w].ev = "wired"
    /\ pipe.log[i].ev = "output" =>
         \E s \in 1 .. i - 1 : pipe.log[s].ev = "spawned"

C16_OutputAfterSpawned ==
  /\ Len(pipe.log) >= 5
  /\ pipe.log[3].ev = "spawned"
  /\ pipe.log[4].src = "line"
  /\ pipe.log[5].src = "line"

(* C17: sendInput(panelId, text) throws and writes to no process when the   *)
(* registry has no entry for panelId; otherwise it writes once to the       *)
(* process registered under panelId and to no other; either way it leaves   *)
(* the registry and the processes as they were.                             *)
C17_SendInputWritesToRegistered ==
  [][input' # input =>
       LET p == input'.panelId IN
       /\ processes' = processes /\ proc' = proc
       /\ IF processes[p] = 0
            THEN input'.threw /\ \A k \in Procs : input'.writes[k] = 0
            ELSE /\ ~input'.threw
                 /\ input'.writes[processes[p]] = 1
                 /\ proc[processes[p]].panelId = p
                 /\ \A k \in Procs \ {processes[p]} : input'.writes[k] = 0]_vars

C17_WrittenWhileOtherPanelRuns ==
  /\ ~input.threw
  /\ processes["p1"] # 0 /\ processes["p2"] # 0
  /\ input.writes[processes["p2"]] = 1

(* C18: killProcess(panelId) on a panel with no registry entry resolves at  *)
(* once, calling neither the cleanup hook nor any kill, emitting nothing    *)
(* and leaving the registry and the processes as they were, every time.     *)
C18_KillAbsentIsNoOp ==
  /\ [][\A c \in KillSlots :
          /\ kill[c].pc = "idle" /\ kill'[c].pc # "idle"
          /\ processes[kill'[c].panelId] = 0
          => /\ kill'[c].pc = "done" /\ kill'[c].noop
             /\ processes' = processes /\ proc' = proc /\ pipe' = pipe]_vars
  /\ [](\A c \in KillSlots : kill[c].noop => kill[c].pc = "done" /\ kill[c].target = 0)

C18_AbsentKilledWhileOtherRuns ==
  \E c \in KillSlots :
    /\ kill[c].noop /\ kill[c].pc = "done"
    /\ \E p \in Panels \ {kill[c].panelId} :
         IsPanelRunning(p) /\ proc[processes[p]].st = "running"

(* C19 as stated: killProcess on a registered panel goes from the snapshot  *)
(* to the cleanup hook, to the tree kill, to the removal of the entry, and  *)
(* the entry stays registered until the tree kill has finished.             *)
C19_EntryStaysUntilTreeKilled ==
  \A c \in KillSlots :
    kill[c].pc \in {"cleanup", "grace", "settle"} =>
      processes[kill[c].panelId] = kill[c].target

(* C19 amended: killProcess on a registered panel goes from the snapshot to *)
(* the cleanup hook, to the tree kill, to the removal of the entry; it      *)
(* kills nothing before the hook has resolved and does not itself remove    *)
(* the entry before the tree kill has finished.                             *)
C19_KillProcessRemovesLast ==
  [][\A c \in KillSlots :
       kill'[c] # kill[c] =>
         /\ <<kill[c].pc, kill'[c].pc>> \in
              {<<"idle", "done">>, <<"idle", "cleanup">>, <<"cleanup", "failed">>,
               <<"cleanup", "grace">>, <<"cleanup", "settle">>, <<"grace", "settle">>,
               <<"settle", "done">>, <<"done", "idle">>, <<"failed", "idle">>}
         /\ kill'[c].pc \in {"cleanup", "failed"} => proc' = proc
         /\ kill'[c].pc = "done" /\ ~kill'[c].noop => processes'[kill[c].panelId] = 0
         /\ ~(kill[c].pc = "settle" /\ kill'[c].pc = "done") => processes' = processes]_vars

C19_TreeKilledEntryStillThere ==
  \E c \in KillSlots :
    /\ kill[c].pc = "settle"
    /\ processes[kill[c].panelId] = kill[c].target
    /\ proc[kill[c].target].st = "dead"

(* C20: killAllProcesses starts killProcess for every panelId registered at *)
(* the time of the call, and when it settles every one of those kills has   *)
(* finished and none of those panels is registered.                         *)
C20_KillAllWaitsForAll ==
  /\ [][killAll.pc = "idle" /\ killAll'.pc # "idle" =>
          /\ killAll'.panelIds = {p \in Panels : processes[p] # 0}
          /\ \A p \in killAll'.panelIds :
               \E c \in KillSlots : kill'[c].panelId = p /\ kill'[c].pc = "cleanup"]_vars
  /\ [](killAll.pc \in {"resolved", "rejected"} =>
          /\ \A c \in KillSlots : kill[c].pc = "idle"
          /\ \A p \in killAll.panelIds : processes[p] = 0)

(* C21: killProcessTree never raises.  Whatever enumeration, signal or kill *)
(* command fails, also for a process that is gone, the call ends by         *)
(* returning a boolean, and it returns false only where it found surviving  *)
(* descendants or caught an error.                                          *)
C21_KillProcessTreeNeverRaises ==
  /\ tree.treeResult # "threw"
  /\ tree.verified => tree.treeResult \in {"true", "false"}
  /\ tree.treeResult = "false" => tree.zombies # <<>> \/ tree.caught

C21_ReturnedAfterFailedCommandsAndCaughtError ==
  /\ tree.treeResult = "false"
  /\ tree.caught
  /\ \E i \in 1 .. Len(tree.signals) : ~tree.signals[i].ok
  /\ tree.descendantPids = {} /\ tree.born # {}

(* C22: residual processes are always reported.  If a descendant of the     *)
(* root is still alive when the settle delay has ended, killProcessTree     *)
(* returns false and emits the warning that lists the survivors; it returns *)
(* true, with no warning, only when no descendant survives.                 *)
C22_SurvivorsAlwaysReported ==
  tree.verified =>
    /\ tree.leftAlive # {} =>
         /\ tree.treeResult = "false"
         /\ tree.zombies = <<tree.leftAlive>>
    /\ tree.treeResult = "true" => tree.leftAlive = {} /\ tree.zombies = <<>>

\* the failure events in a log
FailureEvents(log) == SelectSeq(log, LAMBDA e : e.src \in {"startup", "runtime"})

(* C23: once the exit handler has classified the exit, a non-zero exit code *)
(* has given exactly one failure event, of a startup failure if no data had *)
(* been received and of a runtime failure if some had; exit code 0 has      *)
(* given none; before the classification there is none; and the handler     *)
(* goes on to the cleanup hook in every case.                               *)
C23_FailureClassification ==
  LET F == FailureEvents(pipe.log) IN
  IF pipe.pc \in {"unborn", "running", "sweep"}
    THEN F = <<>>
    ELSE /\ pipe.exitCode = 0 => F = <<>>
         /\ pipe.exitCode # 0 =>
              /\ Len(F) = 1
              /\ F[1].ev = "output"
              /\ F[1].src = IF F[1].at = 0 THEN "startup" ELSE "runtime"

C23_StartupFailureThenLateChunk ==
  /\ pipe.pc = "done"
  /\ pipe.exitCode # 0
  /\ pipe.hasReceivedOutput
  /\ FailureEvents(pipe.log) # <<>>
  /\ FailureEvents(pipe.log)[1].src = "startup"

C25_AppSurvivesManagerFailure ==
  app.managerFailed =>
    /\ app.defaultCliManager = "null"
    /\ app.errorBoxes = 0
    /\ app.pc \in {"window", "running"} => app.services
    /\ app.quit => app.mainWindow
    /\ app.startupCheck # "threw"

(* C26: the fallback flag is safe under overlapping spawnPtyProcess calls.  *)
(* The flag is a boolean that is never unset again; each call makes at most *)
(* two spawn attempts; and a call makes a direct attempt only as its first  *)
(* attempt and only while it reads the flag as unset, so never after it has *)
(* seen the flag set.                                                       *)
C26_FlagSafeUnderOverlap ==
  /\ [](needsNodeFallback \in BOOLEAN)
  /\ [][needsNodeFallback => needsNodeFallback']_vars
  /\ [](\A s \in SpawnSlots : spawn[s].ptySpawns <= 2 /\ spawn[s].spawnAttempt <= 2)
  /\ [][\A s \in SpawnSlots :
          spawn'[s].directSpawns > spawn[s].directSpawns =>
            ~needsNodeFallback /\ spawn[s].spawnAttempt = 0]_vars

C26_OneCallSetFlagOtherFellBack ==
  /\ needsNodeFallback
  /\ spawn[1].pc = "fallback" /\ spawn[1].spawnAttempt = 1 /\ spawn[1].directSpawns = 1
  /\ spawn[2].pc = "fallback" /\ spawn[2].spawnAttempt = 0 /\ spawn[2].directSpawns = 0

(* C27: killing never blocks.  Every killProcess call that has started      *)
(* eventually ends, also when enumeration or kill commands fail and when    *)
(* the root cannot be killed.                                               *)
C27_KillProcessEventuallyReturns == (tree.pc # "idle") ~> (tree.pc = "done")

C27_ReturnedWithRootAliveAndCommandsFailed ==
  /\ tree.pc = "done"
  /\ tree.result = "resolved"
  /\ RootAlive
  /\ tree.alive # {}
  /\ \E i \in 1 .. Len(tree.signals) : ~tree.signals[i].ok

\* what a signal is and whom it goes to, whatever came of it
Shape(s) == <<s.sig, s.to>>

UnixKillSequenceHead ==
  << <<"SIGTERM", "root">>, <<"SIGTERM", "group">>, <<"wait", "grace">>,
     <<"SIGKILL", "root">>, <<"SIGKILL", "group">> >>

(* C28: on Unix the signals of killProcessTree come in this order: SIGTERM  *)
(* to the root, SIGTERM to the group, the grace wait, SIGKILL to the root,  *)
(* SIGKILL to the group, one SIGKILL for every descendant enumerated before *)
(* the first signal, and last the sweep of the root's children.  What has   *)
(* been issued so far is always a prefix of that, and once the settle delay *)
(* is reached the whole sequence has been issued, whichever steps failed.   *)
C28_UnixSignalOrder ==
  Unix =>
    LET sigs == tree.signals
        n == Len(sigs)
        d == Cardinality(tree.descendantPids)
    IN /\ n <= 6 + d
       /\ \A i \in 1 .. n :
            IF i <= 5 THEN Shape(sigs[i]) = UnixKillSequenceHead[i]
            ELSE IF i <= 5 + d
              THEN /\ Shape(sigs[i]) = <<"SIGKILL", "pid">>
                   /\ sigs[i].pid \in tree.descendantPids
                   /\ \A j \in 6 .. i - 1 : sigs[j].pid # sigs[i].pid
            ELSE Shape(sigs[i]) = <<"SIGKILL", "children">>
       /\ tree.pc = "settle" \/ tree.verified => n = 6 + d
       /\ tree.pc \in {"idle", "cleanup"} => n = 0

C28_WholeSequenceDespiteFailures ==
  /\ Unix
  /\ tree.verified
  /\ tree.descendantPids = {2, 3}
  /\ Len(tree.signals) = 8
  /\ ~tree.signals[2].ok /\ ~tree.signals[4].ok /\ ~tree.signals[5].ok /\ ~tree.signals[6].ok

\* the place of an event of the exit handler in the handler's order
\* (0: not an event of the handler)
ExitRank(e) ==
  IF e.src = "report" THEN 1
  ELSE IF e.src = "flush" THEN 2
  ELSE IF e.src \in {"startup", "runtime"} THEN 3
  ELSE IF e.ev = "exit" THEN 4
  ELSE 0

HandlerEvents(log) == SelectSeq(log, LAMBDA e : ExitRank(e) > 0)

(* C29: the exit handler works in this order: the sweep of the orphaned     *)
(* descendants (with its report), the flush of the buffered partial line,   *)
(* the failure classification, cleanupCliResources, the exit event.         *)
(* Nothing of the flush or the classification is emitted while the sweep    *)
(* is under way, the exit event is emitted only in the step in which the    *)
(* cleanup hook has returned, and each of these events occurs at most once. *)
C29_ExitHandlerOrder ==
  /\ [](LET H == HandlerEvents(pipe.log) IN
        /\ \A i, j \in 1 .. Len(H) : i < j => ExitRank(H[i]) < ExitRank(H[j])
        /\ pipe.pc \in {"unborn", "running", "sweep"} => H = <<>>
        /\ pipe.pc \in {"cleanup", "failed"} => \A i \in 1 .. Len(H) : ExitRank(H[i]) < 4
        /\ pipe.pc = "done" => H # <<>> /\ ExitRank(H[Len(H)]) = 4)
  /\ [][Len(HandlerEvents(pipe'.log)) > Len(HandlerEvents(pipe.log)) =>
          \/ pipe.pc \in {"running", "sweep"} /\ pipe'.pc = "cleanup"
          \/ pipe.pc = "cleanup" /\ pipe'.pc = "done"]_vars
  /\ [][pipe'.pc = "sweep" => pipe.pc \in {"running", "sweep"}]_vars

C29_SweepFlushFailureExit ==
  /\ pipe.pc = "done"
  /\ Len(HandlerEvents(pipe.log)) = 4

(* C30: when killProcessTree returns, it has made exactly one last kill     *)
(* through the handle registered under the panel (none when no handle was   *)
(* registered any more), whether the sequence was clean, left descendants   *)
(* or was cut short by a caught error; and whether that kill threw or not,  *)
(* the function returns, with true exactly when nothing was left and        *)
(* nothing was caught.                                                      *)
C30_FinalKillWhateverTheOutcome ==
  [][tree.pc = "settle" /\ tree'.pc = "done" =>
       /\ tree'.ptyKills = tree.ptyKills + (IF processes[TreePanel] # 0 THEN 1 ELSE 0)
       /\ tree'.treeResult \in {"true", "false"}
       /\ tree'.treeResult = "true" <=>
            tree.success /\ tree'.zombies = tree.zombies /\ ~tree'.caught]_vars

C30_LastKillThrewAfterCaughtError ==
  /\ tree.pc = "done"
  /\ tree.caught
  /\ tree.ptyKills = 1
  /\ tree.ptyKillThrew
  /\ tree.treeResult = "false"

\* the panels whose operations take a step here: a spawnCliProcess or
\* killProcess call that moves, an exit handler that moves, a sendInput call
ActingPanels ==
  {spawn'[s].panelId : s \in {x \in SpawnSlots : spawn'[x] # spawn[x] /\ spawn'[x].pc # "idle"}}
    \cup {kill'[c].panelId : c \in {x \in KillSlots : kill'[x] # kill[x] /\ kill'[x].pc # "idle"}}
    \cup {proc[k].panelId : k \in {x \in Procs : proc'[x].onExit # proc[x].onExit
                                                   /\ proc'[x].st # "unborn"}}
    \cup (IF input' # input THEN {input'.panelId} ELSE {})

\* the panels a step touches: the registry entry changes, a process of the
\* panel is started or killed, an event of the panel is emitted (the events
\* of a call, the exit event of a process), its process is written to
TouchedPanels ==
  {q \in Panels : processes'[q] # processes[q]}
    \cup {proc'[k].panelId : k \in {x \in Procs : /\ proc'[x].st # "unborn"
                                                   /\ \/ proc'[x].st # proc[x].st
                                                      \/ proc'[x].exitEvents # proc[x].exitEvents
                                                      \/ proc'[x].removals # proc[x].removals}}
    \cup {spawn'[s].panelId : s \in {x \in SpawnSlots :
                                       /\ spawn'[x].pc # "idle"
                                       /\ \/ spawn'[x].errorEv # spawn[x].errorEv
                                          \/ spawn'[x].spawnedEv # spawn[x].spawnedEv
                                          \/ spawn'[x].jsonOut # spawn[x].jsonOut}}
    \cup (IF input' # input
            THEN {proc[k].panelId : k \in {x \in Procs : input'.writes[x] > 0}}
            ELSE {})

(* C31: a step of spawnCliProcess, sendInput, killProcess or the exit        *)
(* handler belongs to one panel, and everything it touches (registry entry, *)
(* process started, killed or written to, event emitted) is of that panel.  *)
C31_PanelsIndependent ==
  [][/\ Cardinality(ActingPanels) <= 1
     /\ TouchedPanels \subseteq ActingPanels]_vars

C31_OnePanelStoppedOtherStillRuns ==
  /\ kill[1].pc = "done"
  /\ kill[1].panelId = "p1"
  /\ ~kill[1].noop
  /\ processes["p1"] = 0
  /\ processes["p2"] # 0
  /\ proc[processes["p2"]].st = "running"
  /\ input.panelId = "p2"
  /\ input.writes[processes["p2"]] = 1

(* C32: the registry entry of a process is removed only by that process's   *)
(* own exit handler or by the killProcess call that was started on it: a    *)
(* delete that belongs to an earlier process of the panel leaves the entry  *)
(* of a later one in place.                                                 *)
C32_RemovalOnlyOfOwnEntry ==
  [][\A k \in Procs :
       proc'[k].removals > proc[k].removals =>
         \/ proc[k].onExit = "cleanup" /\ proc'[k].onExit = "done"
         \/ \E c \in KillSlots :
              kill[c].pc = "settle" /\ kill'[c].pc = "done" /\ kill[c].target = k]_vars

(* C33: the step that ends killProcessTree(pid, panelId), in killProcess or *)
(* in the exit handler's sweep, with its last kill through the registered   *)
(* handle, kills no process but the one whose pid is being reaped.          *)
C33_FinalKillOnlyOfReapedProcess ==
  [][/\ \A c \in KillSlots :
          kill[c].pc = "settle" /\ kill'[c].pc = "done" =>
            \A k \in Procs \ {kill[c].target} : proc'[k].st = proc[k].st
     /\ \A j \in Procs :
          proc[j].onExit = "sweep" /\ proc'[j].onExit = "cleanup" =>
            \A k \in Procs \ {j} : proc'[k].st = proc[k].st]_vars

(* C34: once the exit event of a process has been emitted, no output event  *)
(* for that process follows it: the exit event, when there is one, is the   *)
(* last event of the process.                                               *)
C34_NoOutputAfterExit ==
  \A i, j \in 1 .. Len(pipe.log) :
    i < j /\ pipe.log[i].ev = "exit" => pipe.log[j].ev # "output"

\* the calls of cleanupCliResources made for process k that the state still
\* shows: one by every killProcess call started on k (line 245, reached as
\* soon as the entry is found), one by k's exit handler once it is past the
\* classification (line 731)
CleanupCalls(k) ==
  Cardinality({c \in KillSlots : kill[c].target = k /\ kill[c].pc # "idle"})
    + (IF proc[k].onExit \in {"cleanup", "done", "failed"} THEN 1 ELSE 0)

(* C35: cleanupCliResources is invoked exactly once for each spawned        *)
(* process: never twice for one process, whether it ends by itself or is    *)
(* stopped by killProcess, and once by the time its exit handling is over.  *)
C35_CleanupExactlyOnce ==
  \A k \in Procs :
    /\ CleanupCalls(k) <= 1
    /\ proc[k].onExit \in {"done", "failed"} => CleanupCalls(k) = 1

(* C36: when the cleanup hook (or the parser) fails inside the exit handler *)
(* of a process, the exit event of the process is emitted all the same and  *)
(* its registry entry is removed.                                           *)
C36_ExitHandlerSurvivesFailure ==
  \A k \in Procs :
    proc[k].onExit = "failed" =>
      /\ proc[k].exitEvents = 1
      /\ processes[proc[k].panelId] # k

(* C37: when killProcess(panelId) has finished, resolved or rejected after  *)
(* a failing cleanup hook, the process it was called on is no longer        *)
(* running and no longer registered under panelId.                          *)
C37_KillProcessSurvivesCleanupFailure ==
  \A c \in KillSlots :
    kill[c].pc \in {"done", "failed"} /\ ~kill[c].noop =>
      /\ proc[kill[c].target].st # "running"
      /\ processes[kill[c].panelId] # kill[c].target

(* C38: a spawnCliProcess call that fails (tool unavailable, a failing      *)
(* build of arguments or environment, a failed spawn) has emitted exactly   *)
(* one error event and no spawned event and has registered nothing, and the *)
(* step in which it fails leaves the registry and the processes as they     *)
(* were; an error event is emitted by a failing call only.                  *)
C38_FailedSpawnIsClean ==
  /\ [](\A s \in SpawnSlots :
          /\ spawn[s].pc = "failed" =>
               spawn[s].errorEv = 1 /\ spawn[s].spawnedEv = 0 /\ spawn[s].child = 0
          /\ spawn[s].pc # "failed" => spawn[s].errorEv = 0)
  /\ [][\A s \in SpawnSlots :
          spawn[s].pc # "failed" /\ spawn'[s].pc = "failed" =>
            processes' = processes /\ proc' = proc]_vars

C38_SpawnFailedTwiceWhileOtherPanelRuns ==
  \E s \in SpawnSlots :
    /\ spawn[s].pc = "failed"
    /\ spawn[s].availability = "available"
    /\ spawn[s].ptySpawns = 2
    /\ spawn[s].panelId = "p1"
    /\ processes["p1"] = 0
    /\ processes["p2"] # 0

(* C39: a getCachedAvailability call that starts while the                  *)
(* testCliAvailability of another call is still in flight invokes no check  *)
(* of its own: the check runs once and its result is what both return.      *)
C39_OneProbeForOverlappingCalls ==
  [][\A s \in SpawnSlots :
       /\ spawn[s].pc = "idle" /\ spawn'[s].pc # "idle"
       /\ \E x \in SpawnSlots \ {s} : spawn[x].pc = "probing"
       => probes' = probes]_vars

(* C40: a call of getCachedAvailability that begins after                   *)
(* clearAvailabilityCache is never served a result from the cache that a    *)
(* probe begun before the invalidation produced.  No call has begun between *)
(* the invalidation and the first call after it, so whatever the cache      *)
(* holds then comes from such a probe: that call is not served from it.     *)
C40_NoPreInvalidationResultServed ==
  [][\A s \in SpawnSlots :
       spawn[s].pc = "idle" /\ spawn'[s].pc # "idle" /\ invalidated
       => ~spawn'[s].startFresh]_vars

====
